---- MODULE Spec2Model ----
(***************************************************************************)
(* gh-find: the search orchestration of Finder.Find.                       *)
(*                                                                         *)
(* Find resolves the repository specs one after the other, deduplicates    *)
(* the resolved repositories by full name, and searches every repository   *)
(* in a goroutine of its own, admitted through a weighted semaphore of     *)
(* Options.Jobs slots and joined by a WaitGroup.  Each task fetches the    *)
(* tree, runs the filter pipeline and writes its matches through the       *)
(* mutex-guarded Output.                                                   *)
(*                                                                         *)
(* Strings are tuples of one-character strings, so that Split, Base, Ext   *)
(* and ToLower are computed as the code computes them.                     *)
(***************************************************************************)
EXTENDS Integers, Sequences, FiniteSets, TLC

\* ------------------------------------------------------------------------
\* Bounds of the model
\* ------------------------------------------------------------------------
MaxJobs == 2
MaxSpecs == 2
MaxTypeSpecs == 1
MaxEntries == 4
MaxListed == 3
PageSize == 2
MaxPaths == 250
MaxModes == 2
MaxCalls == 2

\* ------------------------------------------------------------------------
\* Strings
\* ------------------------------------------------------------------------
\* the upper-case letters and their lower case; the strings of the model
\* are ASCII
UpperLetters ==
    << "A", "B", "C", "D", "E", "F", "G", "H", "I", "J", "K", "L", "M",
       "N", "O", "P", "Q", "R", "S", "T", "U", "V", "W", "X", "Y", "Z" >>
LowerLetters ==
    << "a", "b", "c", "d", "e", "f", "g", "h", "i", "j", "k", "l", "m",
       "n", "o", "p", "q", "r", "s", "t", "u", "v", "w", "x", "y", "z" >>

Upper == {UpperLetters[i] : i \in 1..Len(UpperLetters)}

\* strings.ToLower, one character
LowerChar(c) ==
    IF c \in Upper
    THEN LowerLetters[CHOOSE i \in 1..Len(UpperLetters) : UpperLetters[i] = c]
    ELSE c

\* strings.ToLower
ToLower(s) == [i \in 1..Len(s) |-> LowerChar(s[i])]

\* positions of character c in s
Positions(s, c) == {i \in 1..Len(s) : s[i] = c}

\* strings.Split(s, sep) for a one-character separator
RECURSIVE Split(_, _)
Split(s, sep) ==
    IF Positions(s, sep) = {} THEN <<s>>
    ELSE LET p == CHOOSE i \in Positions(s, sep) :
                     \A j \in Positions(s, sep) : i <= j
         IN  <<SubSeq(s, 1, p - 1)>> \o Split(SubSeq(s, p + 1, Len(s)), sep)

\* strings.Join(parts, sep)
RECURSIVE Join(_, _)
Join(parts, sep) ==
    IF Len(parts) = 0 THEN <<>>
    ELSE IF Len(parts) = 1 THEN parts[1]
    ELSE parts[1] \o sep \o Join(Tail(parts), sep)

\* path.Base: trailing slashes stripped, then the last element; "" gives "."
RECURSIVE StripTrailingSlashes(_)
StripTrailingSlashes(s) ==
    IF Len(s) > 0 /\ s[Len(s)] = "/"
    THEN StripTrailingSlashes(SubSeq(s, 1, Len(s) - 1))
    ELSE s

Base(p) ==
    IF Len(p) = 0 THEN <<".">>
    ELSE LET q == StripTrailingSlashes(p)
         IN  IF Len(q) = 0 THEN <<"/">>
             ELSE IF Positions(q, "/") = {} THEN q
             ELSE LET last == CHOOSE i \in Positions(q, "/") :
                                  \A j \in Positions(q, "/") : j <= i
                  IN  SubSeq(q, last + 1, Len(q))

\* filepath.Ext: the suffix beginning at the final dot of the final element
Ext(p) ==
    LET dots == {i \in 1..Len(p) :
                    p[i] = "." /\ \A j \in i..Len(p) : p[j] # "/"}
    IN  IF dots = {} THEN <<>>
        ELSE LET d == CHOOSE i \in dots : \A j \in dots : j <= i
             IN  SubSeq(p, d, Len(p))

\* slices.Contains
Contains(seq, x) == \E i \in 1..Len(seq) : seq[i] = x

\* ------------------------------------------------------------------------
\* Glob matching (github.com/bmatcuk/doublestar/v4, the fragment with
\* literals, *, **, ?, the classes [set], [a-z], [!set] and [^set], and
\* {alt,alt}; no backslash escapes).  Match validates the whole pattern, so
\* the error does not depend on the path.
\* ------------------------------------------------------------------------
\* the printable ASCII characters in the order of their codes, from the
\* space (32) to the tilde (126); the double quote (34), the backslash (92)
\* and the backquote (96), which no string of the model holds, are left
\* empty
Ascii ==
    << " ", "!", "", "#", "$", "%", "&", "'", "(", ")", "*", "+", ",", "-",
       ".", "/", "0", "1", "2", "3", "4", "5", "6", "7", "8", "9", ":", ";",
       "<", "=", ">", "?", "@", "A", "B", "C", "D", "E", "F", "G", "H", "I",
       "J", "K", "L", "M", "N", "O", "P", "Q", "R", "S", "T", "U", "V", "W",
       "X", "Y", "Z", "[", "", "]", "^", "_", "", "a", "b", "c", "d", "e",
       "f", "g", "h", "i", "j", "k", "l", "m", "n", "o", "p", "q", "r", "s",
       "t", "u", "v", "w", "x", "y", "z", "{", "|", "}", "~" >>

\* the code of a character
Code(c) == 31 + (CHOOSE i \in 1..Len(Ascii) : Ascii[i] = c)

\* the class at the head of p is negated: [!...] or [^...]
ClassNegated(p) == Len(p) >= 2 /\ p[2] \in {"!", "^"}

\* where the items of the class at the head of p begin
ClassStart(p) == IF ClassNegated(p) THEN 3 ELSE 2

\* the ] that closes the class at the head of p; 0 when the class does not
\* end or is empty
ClassEnd(p) ==
    LET closes == {k \in ClassStart(p)..Len(p) : p[k] = "]"}
    IN  IF closes = {} THEN 0
        ELSE LET k == CHOOSE c \in closes : \A d \in closes : c <= d
             IN  IF k = ClassStart(p) THEN 0 ELSE k

\* the items p[i..end-1] of a class are well formed: an item is a
\* character or a range lo-hi, and a - stands only between lo and hi
RECURSIVE ClassItemsValid(_, _, _)
ClassItemsValid(p, i, end) ==
    IF i >= end THEN TRUE
    ELSE IF p[i] = "-" THEN FALSE
    ELSE IF i + 1 < end /\ p[i + 1] = "-"
         THEN /\ i + 2 < end
              /\ p[i + 2] # "-"
              /\ ClassItemsValid(p, i + 3, end)
    ELSE ClassItemsValid(p, i + 1, end)

\* the well-formed items p[i..end-1] of a class against the character r
RECURSIVE ClassHas(_, _, _, _)
ClassHas(p, i, end, r) ==
    IF i >= end THEN FALSE
    ELSE IF i + 1 < end /\ p[i + 1] = "-"
         THEN \/ (Code(p[i]) <= Code(r) /\ Code(r) <= Code(p[i + 2]))
              \/ ClassHas(p, i + 3, end, r)
         ELSE \/ p[i] = r
              \/ ClassHas(p, i + 1, end, r)

\* the } that closes the { at the head of p, 0 when there is none
RECURSIVE BraceClose(_, _, _)
BraceClose(p, i, depth) ==
    IF i > Len(p) THEN 0
    ELSE IF p[i] = "{" THEN BraceClose(p, i + 1, depth + 1)
    ELSE IF p[i] = "}"
         THEN IF depth = 1 THEN i ELSE BraceClose(p, i + 1, depth - 1)
    ELSE BraceClose(p, i + 1, depth)

BraceEnd(p) == BraceClose(p, 2, 1)

\* the alternatives of the braces at the head of p: what lies between the
\* braces, cut at the commas that are in no inner braces
BraceAlts(p) ==
    LET end == BraceEnd(p)
        Depth(i) == Cardinality({j \in 1..(i - 1) : p[j] = "{"})
                    - Cardinality({j \in 1..(i - 1) : p[j] = "}"})
        cuts == {1, end} \cup {i \in 2..(end - 1) : p[i] = "," /\ Depth(i) = 1}
    IN  { SubSeq(p, a + 1, b - 1) :
            <<a, b>> \in { c \in cuts \X cuts :
                              /\ c[1] < c[2]
                              /\ \A m \in cuts : ~(c[1] < m /\ m < c[2]) } }

RECURSIVE ValidPattern(_)
ValidPattern(p) ==
    IF Len(p) = 0 THEN TRUE
    ELSE IF p[1] = "["
         THEN /\ ClassEnd(p) # 0
              /\ ClassItemsValid(p, ClassStart(p), ClassEnd(p))
              /\ ValidPattern(SubSeq(p, ClassEnd(p) + 1, Len(p)))
    ELSE IF p[1] = "{"
         THEN /\ BraceEnd(p) # 0
              /\ \A alt \in BraceAlts(p) :
                     ValidPattern(alt \o SubSeq(p, BraceEnd(p) + 1, Len(p)))
         ELSE ValidPattern(Tail(p))

\* the patterns that match the empty rest of a name
ZeroLengthPatterns ==
    { <<>>, <<"*">>, <<"*", "*">>, <<"/", "*", "*">>, <<"*", "*", "/">>,
      <<"/", "*", "*", "/">> }

\* the rest p of a pattern against the rest s of a name; startOfSegment:
\* the pattern is at its beginning or has just matched a separator.  A **
\* that is a whole path component matches zero or more components, any
\* other ** is a single *.
RECURSIVE GlobMatchFrom(_, _, _)
GlobMatchFrom(p, s, startOfSegment) ==
    IF Len(p) > 0 /\ p[1] = "{"
    THEN /\ BraceEnd(p) # 0
         /\ \E alt \in BraceAlts(p) :
                GlobMatchFrom(alt \o SubSeq(p, BraceEnd(p) + 1, Len(p)), s,
                              startOfSegment)
    ELSE IF Len(s) = 0 THEN p \in ZeroLengthPatterns
    ELSE IF Len(p) = 0 THEN FALSE
    ELSE IF p[1] = "*" /\ Len(p) >= 2 /\ p[2] = "*"
         THEN IF startOfSegment /\ Len(p) = 2 THEN TRUE
              ELSE IF startOfSegment /\ p[3] = "/"
              THEN \E k \in {0} \cup Positions(s, "/") :
                       GlobMatchFrom(SubSeq(p, 4, Len(p)),
                                     SubSeq(s, k + 1, Len(s)), TRUE)
              ELSE \E k \in 0..Len(s) :
                       /\ \A j \in 1..k : s[j] # "/"
                       /\ GlobMatchFrom(SubSeq(p, 3, Len(p)),
                                        SubSeq(s, k + 1, Len(s)), FALSE)
    ELSE IF p[1] = "*"
         THEN \E k \in 0..Len(s) :
                  /\ \A j \in 1..k : s[j] # "/"
                  /\ GlobMatchFrom(Tail(p), SubSeq(s, k + 1, Len(s)), FALSE)
    ELSE IF p[1] = "?"
         THEN s[1] # "/" /\ GlobMatchFrom(Tail(p), Tail(s), FALSE)
    ELSE IF p[1] = "["
         THEN /\ s[1] # "/"
              /\ ClassHas(p, ClassStart(p), ClassEnd(p), s[1]) # ClassNegated(p)
              /\ GlobMatchFrom(SubSeq(p, ClassEnd(p) + 1, Len(p)), Tail(s), FALSE)
    ELSE s[1] = p[1] /\ GlobMatchFrom(Tail(p), Tail(s), p[1] = "/")

GlobMatch(p, s) == GlobMatchFrom(p, s, TRUE)

\* doublestar.Match(pattern, name): (matched, err)
Match(pattern, name) ==
    IF ValidPattern(pattern)
    THEN [matched |-> GlobMatch(pattern, name), err |-> FALSE]
    ELSE [matched |-> FALSE, err |-> TRUE]

\* ------------------------------------------------------------------------
\* File types and the filter pipeline
\* ------------------------------------------------------------------------
\* github.ParseFileType
\* mutant of ParseFileType: a mode that is not in the table has no type
ParseFileTypeStrict(mode) ==
    CASE mode = "040000" -> "directory"
      [] mode = "120000" -> "symlink"
      [] mode = "160000" -> "submodule"
      [] mode = "100755" -> "executable"
      [] mode \in {"100644", "100664"} -> "file"
      [] OTHER -> "unknown"

ParseFileType(mode) ==
    CASE mode = "040000" -> "directory"
      [] mode = "120000" -> "symlink"
      [] mode = "160000" -> "submodule"
      [] mode = "100755" -> "executable"
      [] mode \in {"100644", "100664"} -> "file"
      [] OTHER -> "file"

\* matchesFileType: the type of the entry is one of the given types
matchesFileType(entry, fileTypes) ==
    Contains(fileTypes, ParseFileType(entry.Mode))

\* mutant of filterByType: without the test for the empty list
filterByTypeNoGuard(entries, types) ==
    LET Keep(e) == matchesFileType(e, types)
    IN  SelectSeq(entries, Keep)

filterByType(entries, types) ==
    IF Len(types) = 0 THEN entries
    ELSE LET Keep(e) == Contains(types, ParseFileType(e.Mode))
         IN  SelectSeq(entries, Keep)

\* What a pass does to a parameter it lower-cases: used is what the
\* parameter holds when the loop over the entries begins, arg is what the
\* caller's variable holds then.  A string is passed by value; a slice is
\* passed as a view of the array the caller's slice views.
\*
\* pattern = strings.ToLower(pattern): the parameter is assigned
LowerString(str) == [used |-> ToLower(str), arg |-> str]

\* mutant of LowerSlice: list[i] = strings.ToLower(list[i]), the elements
\* of the array the caller shares are assigned
LowerSliceInPlace(list) ==
    LET lowered == [i \in 1..Len(list) |-> ToLower(list[i])]
    IN  [used |-> lowered, arg |-> lowered]

\* normalized := make([]string, len(list)); normalized[i] =
\* strings.ToLower(x); list = normalized: the elements of a new array are
\* assigned, then the parameter
LowerSlice(list) ==
    [used |-> [i \in 1..Len(list) |-> ToLower(list[i])], arg |-> list]

\* the parameter as it was passed
AsPassed(x) == [used |-> x, arg |-> x]

\* the extensions of filterByExtension and the excludes of filterByExcludes
\* after the if ignoreCase block; the block comes after the return on the
\* empty list
Normalized(list, ignoreCase) ==
    IF Len(list) = 0 THEN AsPassed(list)
    ELSE IF ignoreCase THEN LowerSlice(list)
    ELSE AsPassed(list)

\* the pattern of filterByPattern after the if ignoreCase block
LoweredPattern(pattern, ignoreCase) ==
    IF ignoreCase THEN LowerString(pattern) ELSE AsPassed(pattern)

filterByExtension(entries, extensions, ignoreCase) ==
    IF Len(extensions) = 0 THEN entries
    ELSE LET exts == Normalized(extensions, ignoreCase).used
             Keep(e) ==
                 LET matchPath == IF ignoreCase THEN ToLower(e.Path) ELSE e.Path
                     ext == Ext(matchPath)
                 IN  ext # <<>> /\ Contains(exts, ext)
         IN  SelectSeq(entries, Keep)

\* mutant of filterBySize: the bounds are exclusive
filterBySizeExclusive(entries, minSize, maxSize) ==
    IF minSize = 0 /\ maxSize = 0 THEN entries
    ELSE LET Keep(e) == /\ ~(minSize > 0 /\ e.Size <= minSize)
                        /\ ~(maxSize > 0 /\ e.Size >= maxSize)
         IN  SelectSeq(entries, Keep)

filterBySize(entries, minSize, maxSize) ==
    IF minSize = 0 /\ maxSize = 0 THEN entries
    ELSE LET Keep(e) == /\ ~(minSize > 0 /\ e.Size < minSize)
                        /\ ~(maxSize > 0 /\ e.Size > maxSize)
         IN  SelectSeq(entries, Keep)

\* the path a pattern is matched against
MatchPath(e, fullPath, ignoreCase) ==
    LET p == IF fullPath THEN e.Path ELSE Base(e.Path)
    IN  IF ignoreCase THEN ToLower(p) ELSE p

\* the sequence in reverse
Reverse(seq) == [k \in 1..Len(seq) |-> seq[Len(seq) + 1 - k]]

\* mutant of filterByPattern: a matching entry is put in front of those
\* found before it
filterByPatternPrepends(entries, pattern, fullPath, ignoreCase) ==
    LET pat == LoweredPattern(pattern, ignoreCase).used
        Keep(e) == Match(pat, MatchPath(e, fullPath, ignoreCase)).matched
    IN  IF \E i \in 1..Len(entries) :
               Match(pat, MatchPath(entries[i], fullPath, ignoreCase)).err
        THEN [entries |-> <<>>, err |-> TRUE]
        ELSE [entries |-> Reverse(SelectSeq(entries, Keep)), err |-> FALSE]

\* filterByPattern: (entries, err); the first entry already raises the
\* error of a malformed pattern
filterByPattern(entries, pattern, fullPath, ignoreCase) ==
    LET pat == LoweredPattern(pattern, ignoreCase).used
        Keep(e) == Match(pat, MatchPath(e, fullPath, ignoreCase)).matched
    IN  IF \E i \in 1..Len(entries) :
               Match(pat, MatchPath(entries[i], fullPath, ignoreCase)).err
        THEN [entries |-> <<>>, err |-> TRUE]
        ELSE [entries |-> SelectSeq(entries, Keep), err |-> FALSE]

\* the inner loop of filterByExcludes over one path: the excludes are tried
\* in order up to the first that matches or fails
RECURSIVE ExcludeScan(_, _)
ExcludeScan(excludes, path) ==
    IF Len(excludes) = 0 THEN [excluded |-> FALSE, err |-> FALSE]
    ELSE LET m == Match(excludes[1], path)
         IN  IF m.err THEN [excluded |-> FALSE, err |-> TRUE]
             ELSE IF m.matched THEN [excluded |-> TRUE, err |-> FALSE]
             ELSE ExcludeScan(Tail(excludes), path)

filterByExcludes(entries, excludes, fullPath, ignoreCase) ==
    IF Len(excludes) = 0 THEN [entries |-> entries, err |-> FALSE]
    ELSE LET excl == Normalized(excludes, ignoreCase).used
             Scan(e) == ExcludeScan(excl, MatchPath(e, fullPath, ignoreCase))
             Keep(e) == ~Scan(e).excluded
         IN  IF \E i \in 1..Len(entries) : Scan(entries[i]).err
             THEN [entries |-> <<>>, err |-> TRUE]
             ELSE [entries |-> SelectSeq(entries, Keep), err |-> FALSE]

\* the filter passes of searchRepo over a fetched tree: (entries, err), and
\* what opts.Extensions, opts.Pattern and opts.Excludes of the caller hold
\* when searchRepo is through with the passes; the exclude pass is not
\* called when the pattern pass returned an error
FilterTree(tree, o) ==
    LET e1 == filterByType(tree, o.FileTypes)
        e2 == filterByExtension(e1, o.Extensions, o.IgnoreCase)
        e3 == filterBySize(e2, o.MinSize, o.MaxSize)
        r4 == filterByPattern(e3, o.Pattern, o.FullPath, o.IgnoreCase)
        r5 == filterByExcludes(r4.entries, o.Excludes, o.FullPath, o.IgnoreCase)
    IN  [entries |-> IF r4.err THEN <<>> ELSE r5.entries,
         err |-> IF r4.err THEN TRUE ELSE r5.err,
         Extensions |-> Normalized(o.Extensions, o.IgnoreCase).arg,
         Pattern |-> LoweredPattern(o.Pattern, o.IgnoreCase).arg,
         Excludes |-> IF r4.err THEN o.Excludes
                      ELSE Normalized(o.Excludes, o.IgnoreCase).arg]

\* ------------------------------------------------------------------------
\* The GitHub side: what the API can answer
\* ------------------------------------------------------------------------
\* the repository specs a run can be given
SpecPool ==
    { <<"a">>,
      <<"a", "/", "x">>,
      <<"b", "/", "z">>,
      <<"a", "/", "x", "/", "q">> }

\* the sequences over S of length 1..n
SeqsUpTo(S, n) == UNION {[1..k -> S] : k \in 1..n}

\* the names of the repositories an owner has, in listing order
OwnerRepoNames(owner) ==
    IF owner = <<"a">> THEN << <<"x">>, <<"y">> >>
    ELSE IF owner = <<"b">> THEN << <<"z">> >>
    ELSE IF owner = <<"c">>
         THEN << <<"s">>, <<"f">>, <<"a", "f">>, <<"a", "s">>, <<"m", "i">>,
                 <<"e">>, <<"n">> >>
    ELSE <<>>

\* the fields of a repository in the API's answers: c/f and c/af are forks,
\* c/af and c/as are archived, c/mi is a mirror, c/e has no commit (size 0),
\* c/n has no default branch, and b/z is an archived fork
RepoFields(owner, name) ==
    [name |-> name,
     branch |-> IF name = <<"n">> THEN <<>> ELSE <<"m">>,
     size |-> IF name = <<"e">> THEN 0 ELSE 1024,
     fork |-> name \in { <<"f">>, <<"a", "f">>, <<"z">> },
     archived |-> name \in { <<"a", "f">>, <<"a", "s">>, <<"z">> },
     mirror |-> name = <<"m", "i">>]

\* github.RepoTypes
RepoTypes(sources, forks, archives, mirrors) ==
    [Sources |-> sources, Forks |-> forks, Archives |-> archives,
     Mirrors |-> mirrors]

\* the default of --repo-types
DefaultRepoTypes == RepoTypes(TRUE, FALSE, FALSE, FALSE)

AllRepoTypes ==
    { RepoTypes(s, f, a, m) : s \in BOOLEAN, f \in BOOLEAN, a \in BOOLEAN,
                              m \in BOOLEAN }

\* a Repository as the client builds it from the fields of the API's answer;
\* spec is the index of the repository spec whose resolution produced it
RepositoryOf(owner, fields, specIndex) ==
    [Owner |-> owner, Name |-> fields.name,
     FullName |-> Join(<<owner, fields.name>>, <<"/">>),
     DefaultBranch |-> fields.branch,
     Fork |-> fields.fork, Archived |-> fields.archived,
     Mirror |-> fields.mirror, spec |-> specIndex]

Repository(owner, name, specIndex) ==
    RepositoryOf(owner, RepoFields(owner, name), specIndex)

\* the tree of a repository
File(path, size) == [Path |-> path, Mode |-> "100644", Size |-> size]

TreeOf(fullName) ==
    IF fullName = <<"a", "/", "x">>
    THEN << File(<<"R", ".", "m", "d">>, 5),
            File(<<"m", ".", "g", "o">>, 10),
            [Path |-> <<"c">>, Mode |-> "040000", Size |-> 0],
            File(<<"c", "/", "t", ".", "g", "o">>, 20) >>
    ELSE IF fullName = <<"a", "/", "y">>
    THEN << File(<<"c", "/", "t", ".", "g", "o">>, 20) >>
    ELSE <<>>

\* what GET /repos/{owner}/{name} can answer: 403, and 404 or the
\* repository's fields
GetRepoResponses(owner, name) ==
    { [status |-> 403] }
    \cup (IF Contains(OwnerRepoNames(owner), name)
          THEN { [status |-> 200, body |-> RepoFields(owner, name)] }
          ELSE { [status |-> 404] })

\* a repository without commits or without default branch cannot be searched
IsEmptyRepo(fields) == fields.size = 0 \/ fields.branch = <<>>

\* Client.GetRepo on an answer of the API: the repository, or an error
GetRepo(resp, owner, specIndex) ==
    IF resp.status # 200 THEN [err |-> TRUE]
    ELSE IF IsEmptyRepo(resp.body) THEN [err |-> TRUE]
    ELSE [err |-> FALSE, repo |-> RepositoryOf(owner, resp.body, specIndex)]

GetRepoOutcomes(owner, name, specIndex) ==
    { GetRepo(resp, owner, specIndex) : resp \in GetRepoResponses(owner, name) }

\* the class of a repository: a mirror, a fork, or a source
RepoClass(fields) ==
    IF fields.mirror THEN "mirrors" ELSE IF fields.fork THEN "forks" ELSE "sources"

\* mutant of MatchesRepoTypes: Archives selects the archived repositories
\* only
MatchesRepoTypesIntersect(fields, types) ==
    /\ ~IsEmptyRepo(fields)
    /\ types.Archives => fields.archived
    /\ fields.archived => types.Archives
    /\ CASE RepoClass(fields) = "mirrors" -> types.Mirrors
         [] RepoClass(fields) = "forks" -> types.Forks
         [] OTHER -> types.Sources

\* the client-side filter of ListRepos: not empty, of a requested class, and
\* archived only when Archives is requested
MatchesRepoTypes(fields, types) ==
    /\ ~IsEmptyRepo(fields)
    /\ fields.archived => types.Archives
    /\ CASE RepoClass(fields) = "mirrors" -> types.Mirrors
         [] RepoClass(fields) = "forks" -> types.Forks
         [] OTHER -> types.Sources

\* the client-side filter over the entries of a page, in order
FilterRepos(listed, types) ==
    LET Keep(fields) == MatchesRepoTypes(fields, types)
    IN  SelectSeq(listed, Keep)

\* the repositories of an owner as the listing endpoint has them
OwnerListing(owner) ==
    [i \in 1..Len(OwnerRepoNames(owner)) |->
        RepoFields(owner, OwnerRepoNames(owner)[i])]

\* Client.ListRepos as Find sees it: the owner's repositories that pass the
\* client-side filter, or an error
ListReposOutcomes(owner, types, specIndex) ==
    LET kept == FilterRepos(OwnerListing(owner), types)
    IN  { [err |-> TRUE],
          [err |-> FALSE,
           repos |-> [i \in 1..Len(kept) |->
                         RepositoryOf(owner, kept[i], specIndex)]] }

\* the repositories whose tree exceeds the API's limit
Oversized == { <<"a", "/", "x">> }

\* Client.GetTree: the tree, whole or (for an oversized repository) possibly
\* truncated, or an error
GetTreeOutcomes(repo) ==
    { [err |-> TRUE],
      [err |-> FALSE, Tree |-> TreeOf(repo.FullName), Truncated |-> FALSE] }
    \cup { [err |-> FALSE, Tree |-> TreeOf(repo.FullName), Truncated |-> TRUE] :
             x \in {repo.FullName} \cap Oversized }

\* ------------------------------------------------------------------------
\* Options
\* ------------------------------------------------------------------------
PatGo == <<"*", ".", "g", "o">>
PatBad == <<"[">>
PatT == <<"t", "*">>
PatGoUpper == <<"*", ".", "G", "O">>
PatRUpper == <<"R", "*">>
ExtGoUpper == <<".", "G", "O">>

\* the filter settings of a run: a plain pattern, a malformed pattern, a
\* malformed exclude pattern behind a well-formed one, and a pattern, an
\* exclude pattern and an extension in upper case with --ignore-case
PlainGo ==
    [Pattern |-> PatGo, Excludes |-> <<>>, Extensions |-> <<>>,
     IgnoreCase |-> FALSE]

FilterOptions ==
    { PlainGo,
      [PlainGo EXCEPT !.Pattern = PatBad],
      [PlainGo EXCEPT !.Excludes = <<PatT, PatBad>>],
      [Pattern |-> PatGoUpper, Excludes |-> <<PatRUpper>>,
       Extensions |-> <<ExtGoUpper>>, IgnoreCase |-> TRUE] }

Options(f, specs, jobs) ==
    [Pattern |-> f.Pattern, Excludes |-> f.Excludes,
     FileTypes |-> <<>>, Extensions |-> f.Extensions, MinSize |-> 0, MaxSize |-> 0,
     IgnoreCase |-> f.IgnoreCase, FullPath |-> FALSE,
     RepoTypes |-> DefaultRepoTypes,
     RepoSpecs |-> specs, Jobs |-> jobs]

\* the trees GetTree can answer with
Trees ==
    UNION { { TreeOf(Join(<<o, OwnerRepoNames(o)[i]>>, <<"/">>)) :
                i \in 1..Len(OwnerRepoNames(o)) } :
            o \in {<<"a">>, <<"b">>, <<"c">>} }

\* the filter passes of searchRepo, over every tree and every filter setting
\* of the model
Searches ==
    [f \in FilterOptions |->
        [tree \in Trees |-> FilterTree(tree, Options(f, <<>>, 1))]]

\* the Options of the run after the passes of searchRepo, whose result is r
OptionsAfterSearch(o, r) ==
    [o EXCEPT !.Extensions = r.Extensions,
              !.Pattern = r.Pattern,
              !.Excludes = r.Excludes]

\* the filter passes of searchRepo over a fetched tree: (entries, err)
Search(tree, o) ==
    LET f == [Pattern |-> o.Pattern, Excludes |-> o.Excludes,
              Extensions |-> o.Extensions, IgnoreCase |-> o.IgnoreCase]
    IN  IF /\ f \in FilterOptions
           /\ tree \in Trees
           /\ o = [Options(f, o.RepoSpecs, o.Jobs) EXCEPT !.RepoTypes = o.RepoTypes]
        THEN Searches[f][tree]
        ELSE FilterTree(tree, o)

\* ------------------------------------------------------------------------
\* Finder.Find
\* ------------------------------------------------------------------------
VARIABLES
    opts,        \* the Options of the run
    pc,          \* where Find is: newclient, resolve, schedule, wait,
                 \* cancelwait, done
    specIdx,     \* the repository spec the resolve loop is at
    allRepos,    \* the repositories resolved so far, in order
    repos,       \* the deduplicated repositories
    next,        \* the repository the scheduling loop is at
    semCur,      \* slots of the semaphore in use
    wgCount,     \* the WaitGroup's counter
    errorCount,  \* the atomic counter of failed tasks
    task,        \* the goroutine of each repository
    mu,          \* the holder of Output.mu, 0 when it is free
    stdout,      \* what was written to stdout, in pieces
    stderr,      \* what was written to stderr, in pieces
    cancelled,   \* ctx is done
    ret,         \* what Find returned
    fl,          \* a filter stage applied on its own to a sequence of entries
    lr,          \* a call of Client.ListRepos, page by page
    gq,          \* a call of Client.GetFileCommitDates, batch by batch
    oc           \* goroutines that call Match, Warningf and Infof on one Output

\* the calls that are followed on their own, outside a run of Find
CallVars == <<fl, lr, gq, oc>>

vars == <<opts, pc, specIdx, allRepos, repos, next, semCur, wgCount,
          errorCount, task, mu, stdout, stderr, cancelled, ret, CallVars>>

\* no such call is under way
NoCall == [pc |-> "none"]

\* parseRepoSpec: (owner, repo, err)
parseRepoSpec(spec) ==
    LET parts == Split(spec, "/")
    IN  IF Len(parts) = 1 THEN [owner |-> parts[1], repo |-> <<>>, err |-> FALSE]
        ELSE IF Len(parts) = 2
             THEN [owner |-> parts[1], repo |-> parts[2], err |-> FALSE]
        ELSE [owner |-> <<>>, repo |-> <<>>, err |-> TRUE]

\* the deduplication loop of Find: the first repository of each full name
RECURSIVE DedupeFrom(_, _)
DedupeFrom(rs, seen) ==
    IF Len(rs) = 0 THEN <<>>
    ELSE IF rs[1].FullName \in seen THEN DedupeFrom(Tail(rs), seen)
    ELSE <<rs[1]>> \o DedupeFrom(Tail(rs), seen \cup {rs[1].FullName})

\* mutants of Dedupe: no deduplication, and the deduplication of a map
\* keyed by full name, where the last value of a name replaces the earlier
DedupeNothing(rs) == rs

RECURSIVE DedupeLastFrom(_)
DedupeLastFrom(rs) ==
    IF Len(rs) = 0 THEN <<>>
    ELSE IF \E j \in 2..Len(rs) : rs[j].FullName = rs[1].FullName
         THEN DedupeLastFrom(Tail(rs))
         ELSE <<rs[1]>> \o DedupeLastFrom(Tail(rs))

DedupeKeepLast(rs) == DedupeLastFrom(rs)

Dedupe(rs) == DedupeFrom(rs, {})

\* one call of Output.Match, Warningf or Infof writes a line; the line
\* reaches the writer in two pieces
Line(w, kind, repo, text) == [w |-> w, kind |-> kind, repo |-> repo, text |-> text]
Piece(line, part) == [line |-> line, part |-> part]
WholeLine(line) == <<Piece(line, 1), Piece(line, 2)>>

\* mutant of CanLock: no mutual exclusion
CanLockAlways(m) == TRUE

\* sync.Mutex: Lock proceeds when the mutex is free
CanLock(m) == m = 0

\* mutants of the semaphore: ctx is not looked at, and one slot too many
AcquireIgnoresCtx(c) == FALSE
CanAcquireOneMore(cur, size) == cur <= size

\* semaphore.Weighted: Acquire(ctx, 1) fails when ctx is done, and takes a
\* slot when one is free
AcquireFails(c) == c
CanAcquire(cur, size) == cur < size

\* what Find returns: nil, or an error; n is the number an error names
Return(kind, n) == [kind |-> kind, n |-> n]
NotReturned == Return("none", 0)

\* mutants of FindResult: never fatal, and fatal on any failure
FindResultNeverFatal(errors, n) == Return("nil", 0)
FindResultAnyFatal(errors, n) ==
    IF errors > 0 THEN Return("allfailed", n) ELSE Return("nil", 0)

\* the result of Find after wg.Wait: fatal when every repository failed
FindResult(errors, n) ==
    IF errors = n THEN Return("allfailed", n) ELSE Return("nil", 0)

QueuedTask ==
    [pc |-> "queued", w |-> FALSE, tree |-> <<>>, trunc |-> FALSE,
     entries |-> <<>>, i |-> 0, err |-> "none"]

\* jobsCount.Set: --jobs is accepted from 1 to maxJobs
maxJobs == 100

JobsAccepted(j) == ~(j < 1 \/ j > maxJobs)

\* run: a --min-size above the --max-size is rejected; the pattern and the
\* exclude patterns are handed to Find as they are
SizesAccepted(minSize, maxSize) ==
    ~(minSize > 0 /\ maxSize > 0 /\ minSize > maxSize)

\* Find is entered
FindEntered ==
    /\ pc = "newclient"
    /\ specIdx = 1
    /\ allRepos = <<>>
    /\ repos = <<>>
    /\ next = 1
    /\ semCur = 0
    /\ wgCount = 0
    /\ errorCount = 0
    /\ task = <<>>
    /\ mu = 0
    /\ stdout = <<>>
    /\ stderr = <<>>
    /\ cancelled = FALSE
    /\ ret = NotReturned

Init ==
    /\ \E f \in FilterOptions, specs \in SeqsUpTo(SpecPool, MaxSpecs),
          jobs \in {j \in 0..MaxJobs : JobsAccepted(j)} :
           opts = Options(f, specs, jobs)
    /\ SizesAccepted(opts.MinSize, opts.MaxSize)
    /\ FindEntered
    /\ fl = NoCall /\ lr = NoCall /\ gq = NoCall /\ oc = NoCall

SchedVars == <<repos, next, semCur, wgCount, errorCount, task, mu, stdout>>

\* github.NewClient gives the client: Find goes on to the repository specs
NewClient ==
    /\ pc = "newclient"
    /\ pc' = "resolve"
    /\ UNCHANGED <<CallVars, opts, specIdx, allRepos, SchedVars, stderr, cancelled,
                   ret>>

\* github.NewClient fails: Find returns the error before any spec is parsed
NewClientFails ==
    /\ pc = "newclient"
    /\ pc' = "done"
    /\ ret' = Return("clienterror", 0)
    /\ UNCHANGED <<CallVars, opts, specIdx, allRepos, SchedVars, stderr, cancelled>>

\* a repository spec that does not parse: Find returns the error
ResolveInvalid ==
    /\ pc = "resolve"
    /\ specIdx <= Len(opts.RepoSpecs)
    /\ parseRepoSpec(opts.RepoSpecs[specIdx]).err
    /\ pc' = "done"
    /\ ret' = Return("specerror", 0)
    /\ UNCHANGED <<CallVars, opts, specIdx, allRepos, SchedVars, stderr, cancelled>>

\* mutant of ResolveRepo: the named repository goes through the filter of
\* --repo-types as the listed ones do
ResolveRepoFiltered ==
    /\ pc = "resolve"
    /\ specIdx <= Len(opts.RepoSpecs)
    /\ LET p == parseRepoSpec(opts.RepoSpecs[specIdx])
       IN  /\ ~p.err
           /\ p.repo # <<>>
           /\ \E out \in GetRepoOutcomes(p.owner, p.repo, specIdx) :
                IF out.err
                THEN /\ stderr' = stderr \o WholeLine(
                            Line(0, "warn-getrepo",
                                 Join(<<p.owner, p.repo>>, <<"/">>), <<>>))
                     /\ UNCHANGED allRepos
                ELSE IF MatchesRepoTypes(RepoFields(p.owner, p.repo),
                                         opts.RepoTypes)
                THEN /\ allRepos' = Append(allRepos, out.repo)
                     /\ UNCHANGED stderr
                ELSE UNCHANGED <<allRepos, stderr>>
    /\ specIdx' = specIdx + 1
    /\ UNCHANGED <<CallVars, opts, pc, SchedVars, cancelled, ret>>

\* mutant of ResolveRepo: the error of GetRepo is dropped and the
\* repository of the answer, or a repository of that name, is kept
ResolveRepoIgnoresErr ==
    /\ pc = "resolve"
    /\ specIdx <= Len(opts.RepoSpecs)
    /\ LET p == parseRepoSpec(opts.RepoSpecs[specIdx])
       IN  /\ ~p.err
           /\ p.repo # <<>>
           /\ \E out \in GetRepoOutcomes(p.owner, p.repo, specIdx) :
                IF out.err
                THEN /\ allRepos' = Append(allRepos,
                            [Owner |-> p.owner, Name |-> p.repo,
                             FullName |-> Join(<<p.owner, p.repo>>, <<"/">>),
                             DefaultBranch |-> <<>>,
                             Fork |-> FALSE, Archived |-> FALSE,
                             Mirror |-> FALSE, spec |-> specIdx])
                     /\ UNCHANGED stderr
                ELSE /\ allRepos' = Append(allRepos, out.repo)
                     /\ UNCHANGED stderr
    /\ specIdx' = specIdx + 1
    /\ UNCHANGED <<CallVars, opts, pc, SchedVars, cancelled, ret>>

\* owner/repo: GetRepo; a failure is a warning and the spec is skipped
ResolveRepo ==
    /\ pc = "resolve"
    /\ specIdx <= Len(opts.RepoSpecs)
    /\ LET p == parseRepoSpec(opts.RepoSpecs[specIdx])
       IN  /\ ~p.err
           /\ p.repo # <<>>
           /\ \E out \in GetRepoOutcomes(p.owner, p.repo, specIdx) :
                IF out.err
                THEN /\ stderr' = stderr \o WholeLine(
                            Line(0, "warn-getrepo",
                                 Join(<<p.owner, p.repo>>, <<"/">>), <<>>))
                     /\ UNCHANGED allRepos
                ELSE /\ allRepos' = Append(allRepos, out.repo)
                     /\ UNCHANGED stderr
    /\ specIdx' = specIdx + 1
    /\ UNCHANGED <<CallVars, opts, pc, SchedVars, cancelled, ret>>

\* owner: ListRepos; a failure is returned by Find
ResolveOwner ==
    /\ pc = "resolve"
    /\ specIdx <= Len(opts.RepoSpecs)
    /\ LET p == parseRepoSpec(opts.RepoSpecs[specIdx])
       IN  /\ ~p.err
           /\ p.repo = <<>>
           /\ \E out \in ListReposOutcomes(p.owner, opts.RepoTypes, specIdx) :
                IF out.err
                THEN /\ pc' = "done"
                     /\ ret' = Return("listerror", 0)
                     /\ UNCHANGED <<allRepos, specIdx>>
                ELSE /\ allRepos' = allRepos \o out.repos
                     /\ specIdx' = specIdx + 1
                     /\ UNCHANGED <<pc, ret>>
    /\ UNCHANGED <<CallVars, opts, SchedVars, stderr, cancelled>>

\* mutant of DedupeRepos: the empty set is not looked for, the loop over no
\* repository is followed by wg.Wait and the check of errorCount
DedupeReposNoEmptyCheck ==
    /\ pc = "resolve"
    /\ specIdx > Len(opts.RepoSpecs)
    /\ repos' = Dedupe(allRepos)
    /\ IF Len(repos') = 0
       THEN /\ pc' = "done"
            /\ ret' = FindResult(errorCount, 0)
            /\ UNCHANGED <<task, stderr>>
       ELSE /\ task' = [t \in 1..Len(repos') |-> QueuedTask]
            /\ pc' = "schedule"
            /\ UNCHANGED <<stderr, ret>>
    /\ UNCHANGED <<CallVars, opts, specIdx, allRepos, next, semCur, wgCount,
                   errorCount, mu, stdout, cancelled>>

\* after the last spec: deduplicate; with no repository left, warn and
\* return nil
DedupeRepos ==
    /\ pc = "resolve"
    /\ specIdx > Len(opts.RepoSpecs)
    /\ repos' = Dedupe(allRepos)
    /\ IF Len(repos') = 0
       THEN /\ stderr' = stderr \o WholeLine(Line(0, "warn-norepos", <<>>, <<>>))
            /\ pc' = "done"
            /\ ret' = Return("nil", 0)
            /\ UNCHANGED task
       ELSE /\ task' = [t \in 1..Len(repos') |-> QueuedTask]
            /\ pc' = "schedule"
            /\ UNCHANGED <<stderr, ret>>
    /\ UNCHANGED <<CallVars, opts, specIdx, allRepos, next, semCur, wgCount, errorCount,
                   mu, stdout, cancelled>>

\* sem.Acquire succeeds: wg.Add(1) and the goroutine of the repository starts
Admit ==
    /\ pc = "schedule"
    /\ ~AcquireFails(cancelled)
    /\ CanAcquire(semCur, opts.Jobs)
    /\ semCur' = semCur + 1
    /\ wgCount' = wgCount + 1
    /\ task' = [task EXCEPT ![next].pc = "fetch"]
    /\ next' = next + 1
    /\ pc' = IF next' > Len(repos) THEN "wait" ELSE "schedule"
    /\ UNCHANGED <<CallVars, opts, specIdx, allRepos, repos, errorCount, mu, stdout,
                   stderr, cancelled, ret>>

\* sem.Acquire fails because ctx is done: Find goes to wg.Wait and returns
\* the error
AcquireCancelled ==
    /\ pc = "schedule"
    /\ AcquireFails(cancelled)
    /\ pc' = "cancelwait"
    /\ UNCHANGED <<CallVars, opts, specIdx, allRepos, SchedVars, stderr, cancelled, ret>>

\* wg.Wait returns after the loop: the result depends on errorCount
WaitDone ==
    /\ pc = "wait"
    /\ wgCount = 0
    /\ pc' = "done"
    /\ ret' = FindResult(errorCount, Len(repos))
    /\ UNCHANGED <<CallVars, opts, specIdx, allRepos, SchedVars, stderr, cancelled>>

\* mutant of CancelWaitDone: the error of Acquire is returned without wg.Wait
CancelReturnsAtOnce ==
    /\ pc = "cancelwait"
    /\ pc' = "done"
    /\ ret' = Return("canceled", 0)
    /\ UNCHANGED <<CallVars, opts, specIdx, allRepos, SchedVars, stderr, cancelled>>

\* wg.Wait returns on the cancellation path
CancelWaitDone ==
    /\ pc = "cancelwait"
    /\ wgCount = 0
    /\ pc' = "done"
    /\ ret' = Return("canceled", 0)
    /\ UNCHANGED <<CallVars, opts, specIdx, allRepos, SchedVars, stderr, cancelled>>

\* the user interrupts the run
Cancel ==
    /\ ~cancelled
    /\ pc # "done"
    /\ cancelled' = TRUE
    /\ UNCHANGED <<CallVars, opts, pc, specIdx, allRepos, SchedVars, stderr, ret>>

\* ------------------------------------------------------------------------
\* The goroutine of one repository: searchRepo, then the deferred
\* sem.Release and wg.Done
\* ------------------------------------------------------------------------
Tasks == DOMAIN task

MainVars == <<CallVars, opts, pc, specIdx, allRepos, repos, next, cancelled, ret>>

\* GetTree fails: searchRepo returns the error, errorCount.Add(1), and the
\* warning is next.  A done ctx makes the failure a cancellation
FetchFail(t) ==
    /\ task[t].pc = "fetch"
    /\ [err |-> TRUE] \in GetTreeOutcomes(repos[t])
    /\ task' = [task EXCEPT ![t].pc = "failwarn",
                            ![t].err = IF cancelled THEN "canceled" ELSE "fetch"]
    /\ errorCount' = errorCount + 1
    /\ UNCHANGED <<MainVars, semCur, wgCount, mu, stdout, stderr>>

\* mutant of FetchOk: a truncated tree is taken for a failed fetch
FetchOkTruncFails(t) ==
    /\ task[t].pc = "fetch"
    /\ \E out \in GetTreeOutcomes(repos[t]) :
          /\ ~out.err
          /\ task' = [task EXCEPT ![t].pc = IF out.Truncated THEN "failwarn"
                                                             ELSE "filter",
                                  ![t].err = IF out.Truncated THEN "fetch"
                                                              ELSE "none",
                                  ![t].tree = out.Tree,
                                  ![t].trunc = out.Truncated]
          /\ errorCount' = errorCount + (IF out.Truncated THEN 1 ELSE 0)
    /\ UNCHANGED <<MainVars, semCur, wgCount, mu, stdout, stderr>>

\* GetTree answers: a truncated tree is warned about, then filtered
FetchOk(t) ==
    /\ task[t].pc = "fetch"
    /\ \E out \in GetTreeOutcomes(repos[t]) :
          /\ ~out.err
          /\ task' = [task EXCEPT ![t].pc = IF out.Truncated THEN "truncwarn"
                                                             ELSE "filter",
                                  ![t].tree = out.Tree,
                                  ![t].trunc = out.Truncated]
    /\ UNCHANGED <<MainVars, semCur, wgCount, errorCount, mu, stdout, stderr>>

\* mutant of FilterPass: the error of a pass is counted but searchRepo does
\* not return, and the entries that matched the pattern are written
FilterPassNoReturn(t) ==
    /\ task[t].pc = "filter"
    /\ LET r == FilterTree(task[t].tree, opts)
           kept == IF ValidPattern(opts.Pattern)
                   THEN filterByPattern(task[t].tree, opts.Pattern,
                                        opts.FullPath, opts.IgnoreCase).entries
                   ELSE <<>>
       IN  IF r.err
           THEN /\ task' = [task EXCEPT ![t].pc = IF Len(kept) = 0
                                                  THEN "failwarn" ELSE "emit",
                                        ![t].err = "filter",
                                        ![t].entries = kept,
                                        ![t].i = 1]
                /\ errorCount' = errorCount + 1
           ELSE /\ task' = [task EXCEPT ![t].pc = IF Len(r.entries) = 0
                                                  THEN "release" ELSE "emit",
                                        ![t].entries = r.entries,
                                        ![t].i = 1]
                /\ UNCHANGED errorCount
    /\ UNCHANGED <<MainVars, semCur, wgCount, mu, stdout, stderr>>

\* the filter passes; an error is returned by searchRepo and counted. The
\* passes read the Options of the run, which every task shares
FilterPass(t) ==
    /\ task[t].pc = "filter"
    /\ LET r == Search(task[t].tree, opts)
       IN  /\ IF r.err
              THEN /\ task' = [task EXCEPT ![t].pc = "failwarn",
                                           ![t].err = "filter"]
                   /\ errorCount' = errorCount + 1
              ELSE /\ task' = [task EXCEPT ![t].pc = IF Len(r.entries) = 0
                                                     THEN "release" ELSE "emit",
                                           ![t].entries = r.entries,
                                           ![t].i = 1]
                   /\ UNCHANGED errorCount
           /\ opts' = OptionsAfterSearch(opts, r)
    /\ UNCHANGED <<CallVars, pc, specIdx, allRepos, repos, next, cancelled, ret,
                   semCur, wgCount, mu, stdout, stderr>>

\* the line a task is about to write, by where it is
TaskLine(t) ==
    CASE task[t].pc = "truncwarn" ->
            Line(t, "warn-trunc", repos[t].FullName, <<>>)
      [] task[t].pc = "failwarn" ->
            Line(t, "warn-fail", repos[t].FullName, <<task[t].err>>)
      [] task[t].pc = "emit" ->
            Line(t, "match", Join(<<repos[t].Owner, repos[t].Name>>, <<"/">>),
                 task[t].entries[task[t].i].Path)

ToStdout(t) == task[t].pc = "emit"

\* where a task goes on when its Output call returns
AfterWrite(t) ==
    CASE task[t].pc = "truncwarn" -> [task[t] EXCEPT !.pc = "filter", !.w = FALSE]
      [] task[t].pc = "failwarn" -> [task[t] EXCEPT !.pc = "release", !.w = FALSE]
      [] task[t].pc = "emit" ->
            [task[t] EXCEPT !.pc = IF task[t].i = Len(task[t].entries)
                                   THEN "release" ELSE "emit",
                            !.i = task[t].i + 1,
                            !.w = FALSE]

\* Output.Match / Warningf: o.mu.Lock(), then the line starts to be written
OutputLock(t) ==
    /\ task[t].pc \in {"truncwarn", "failwarn", "emit"}
    /\ ~task[t].w
    /\ CanLock(mu)
    /\ mu' = t
    /\ task' = [task EXCEPT ![t].w = TRUE]
    /\ IF ToStdout(t)
       THEN /\ stdout' = Append(stdout, Piece(TaskLine(t), 1))
            /\ UNCHANGED stderr
       ELSE /\ stderr' = Append(stderr, Piece(TaskLine(t), 1))
            /\ UNCHANGED stdout
    /\ UNCHANGED <<MainVars, semCur, wgCount, errorCount>>

\* the rest of the line is written, and the deferred o.mu.Unlock()
OutputUnlock(t) ==
    /\ task[t].pc \in {"truncwarn", "failwarn", "emit"}
    /\ task[t].w
    /\ mu' = 0
    /\ IF ToStdout(t)
       THEN /\ stdout' = Append(stdout, Piece(TaskLine(t), 2))
            /\ UNCHANGED stderr
       ELSE /\ stderr' = Append(stderr, Piece(TaskLine(t), 2))
            /\ UNCHANGED stdout
    /\ task' = [task EXCEPT ![t] = AfterWrite(t)]
    /\ UNCHANGED <<MainVars, semCur, wgCount, errorCount>>

\* mutant of Release: the slot is given back at the end of a successful
\* searchRepo only
ReleaseUnlessFailed(t) ==
    /\ task[t].pc = "release"
    /\ semCur' = IF task[t].err = "none" THEN semCur - 1 ELSE semCur
    /\ task' = [task EXCEPT ![t].pc = "wgdone"]
    /\ UNCHANGED <<MainVars, wgCount, errorCount, mu, stdout, stderr>>

\* defer sem.Release(1)
Release(t) ==
    /\ task[t].pc = "release"
    /\ semCur' = semCur - 1
    /\ task' = [task EXCEPT ![t].pc = "wgdone"]
    /\ UNCHANGED <<MainVars, wgCount, errorCount, mu, stdout, stderr>>

\* defer wg.Done()
WgDone(t) ==
    /\ task[t].pc = "wgdone"
    /\ wgCount' = wgCount - 1
    /\ task' = [task EXCEPT ![t].pc = "done"]
    /\ UNCHANGED <<MainVars, semCur, errorCount, mu, stdout, stderr>>

TaskStep(t) ==
    \/ FetchFail(t)
    \/ FetchOk(t)
    \/ FilterPass(t)
    \/ OutputLock(t)
    \/ OutputUnlock(t)
    \/ Release(t)
    \/ WgDone(t)

Next ==
    \/ NewClient
    \/ NewClientFails
    \/ ResolveInvalid
    \/ ResolveRepo
    \/ ResolveOwner
    \/ DedupeRepos
    \/ Admit
    \/ AcquireCancelled
    \/ WaitDone
    \/ CancelWaitDone
    \/ Cancel
    \/ \E t \in Tasks : TaskStep(t)

\* what Find itself does
MainStep ==
    \/ NewClient
    \/ NewClientFails
    \/ ResolveInvalid
    \/ ResolveRepo
    \/ ResolveOwner
    \/ DedupeRepos
    \/ Admit
    \/ AcquireCancelled
    \/ WaitDone
    \/ CancelWaitDone

\* the goroutines there can be: one for each repository of the two owners
TaskIds == 1..(Len(OwnerRepoNames(<<"a">>)) + Len(OwnerRepoNames(<<"b">>)))

Spec == Init /\ [][Next]_vars

\* Find and every started goroutine keep running, and every API call returns
FairSpec ==
    /\ Spec
    /\ WF_vars(MainStep)
    /\ \A t \in TaskIds : WF_vars(t \in Tasks /\ TaskStep(t))

\* ------------------------------------------------------------------------
\* The filter passes on their own, over every sequence of entries
\* ------------------------------------------------------------------------
FindVars == <<opts, pc, specIdx, allRepos, repos, next, semCur, wgCount,
              errorCount, task, mu, stdout, stderr, cancelled, ret>>

\* no run of Find is under way
FindIdle ==
    /\ opts = Options(PlainGo, <<>>, 1)
    /\ pc = "idle"
    /\ specIdx = 1
    /\ allRepos = <<>>
    /\ repos = <<>>
    /\ next = 1
    /\ semCur = 0
    /\ wgCount = 0
    /\ errorCount = 0
    /\ task = <<>>
    /\ mu = 0
    /\ stdout = <<>>
    /\ stderr = <<>>
    /\ cancelled = FALSE
    /\ ret = NotReturned

\* the entries a tree is made of: README.md, main.go, the directory cmd,
\* cmd/tool.go, and an executable with an upper-case name
EntryPool ==
    { File(<<"R", ".", "m", "d">>, 999),
      File(<<"m", ".", "g", "o">>, 1000),
      [Path |-> <<"c">>, Mode |-> "040000", Size |-> 0],
      File(<<"c", "/", "t", ".", "g", "o">>, 1001),
      [Path |-> <<"T", ".", "G", "O">>, Mode |-> "100755", Size |-> 2000] }

\* the settings of the passes
TypeSettings == { <<>>, <<"file">>, <<"directory", "executable">> }
\* the values given to --extension, in order, as they are typed
ExtensionSettings ==
    { <<>>,
      << <<"g", "o">> >>,
      << <<".", "g", "o">> >>,
      << <<".", "G", "O">>, <<"m", "d">> >>,
      << <<".", ".", "g", "o">> >> }

\* mutant of extensionsFlagSet: the value is appended as it is
extensionsFlagSetAsTyped(e, v) == Append(e, v)

\* extensionsFlag.Set: the value is appended, with a dot in front of it
\* when it does not start with one
extensionsFlagSet(e, v) ==
    Append(e, IF Len(v) > 0 /\ v[1] = "." THEN v ELSE <<".">> \o v)

\* the flag after every value was set
RECURSIVE extensionsFlagOf(_)
extensionsFlagOf(typed) ==
    IF Len(typed) = 0 THEN <<>>
    ELSE extensionsFlagSet(extensionsFlagOf(SubSeq(typed, 1, Len(typed) - 1)),
                           typed[Len(typed)])
SizeSettings ==
    { <<0, 0>>, <<1000, 0>>, <<0, 1000>>, <<1000, 1001>>, <<1001, 1000>> }
PatAnyGo == <<"*", "*", "/", "*", ".", "g", "o">>
PatGoOrMd == <<"*", ".", "{", "g", "o", ",", "m", "d", "}">>
\* the patterns, among them [a-m]* and [!a-m]*, a class with a range and
\* its negation
PatternSettings ==
    { PatGo, PatT, <<"*">>, <<"c", "/", "*">>, PatAnyGo, PatGoOrMd,
      <<"[", "a", "-", "m", "]", "*">>, <<"[", "!", "a", "-", "m", "]", "*">>,
      PatBad }
\* the lists of exclude patterns, among them [^c]*
ExcludeSettings ==
    { <<>>, <<PatT>>, <<PatGo, PatT>>, <<PatT, PatBad>>,
      << <<"[", "^", "c", "]", "*">> >> }

\* a pass was applied to the entries fl.in
Filtered(stage, setting, out, err) ==
    [pc |-> "done", stage |-> stage, setting |-> setting, in |-> fl.in,
     out |-> out, err |-> err, written |-> <<>>]

FilterInit ==
    /\ FindIdle
    /\ \E entries \in SeqsUpTo(EntryPool, MaxEntries) :
           fl = [pc |-> "input", in |-> entries]
    /\ lr = NoCall
    /\ gq = NoCall
    /\ oc = NoCall

ApplyType ==
    /\ fl.pc = "input"
    /\ \E types \in TypeSettings :
           fl' = Filtered("type", <<types>>, filterByType(fl.in, types), FALSE)
    /\ UNCHANGED <<FindVars, lr, gq, oc>>

ApplyExtension ==
    /\ fl.pc = "input"
    /\ \E typed \in ExtensionSettings, ic \in BOOLEAN :
           LET exts == extensionsFlagOf(typed)
           IN  fl' = Filtered("extension", <<exts, ic, typed>>,
                              filterByExtension(fl.in, exts, ic), FALSE)
    /\ UNCHANGED <<FindVars, lr, gq, oc>>

ApplySize ==
    /\ fl.pc = "input"
    /\ \E sz \in SizeSettings :
           fl' = Filtered("size", sz, filterBySize(fl.in, sz[1], sz[2]), FALSE)
    /\ UNCHANGED <<FindVars, lr, gq, oc>>

ApplyPattern ==
    /\ fl.pc = "input"
    /\ \E pat \in PatternSettings, fp \in BOOLEAN, ic \in BOOLEAN :
           LET r == filterByPattern(fl.in, pat, fp, ic)
           IN  fl' = Filtered("pattern", <<pat, fp, ic>>, r.entries, r.err)
    /\ UNCHANGED <<FindVars, lr, gq, oc>>

ApplyExcludes ==
    /\ fl.pc = "input"
    /\ \E excl \in ExcludeSettings, fp \in BOOLEAN, ic \in BOOLEAN :
           LET r == filterByExcludes(fl.in, excl, fp, ic)
           IN  fl' = Filtered("excludes", <<excl, fp, ic>>, r.entries, r.err)
    /\ UNCHANGED <<FindVars, lr, gq, oc>>

\* what a call on the Output leaves alone of Find's state
FindButOutput == <<opts, pc, specIdx, allRepos, repos, next, semCur, wgCount,
                   errorCount, task, cancelled, ret>>

\* the repository searchRepo is called for, and its goroutine
SearchedRepo == <<"a", "/", "x">>
SearchCaller == 1

\* searchRepo over a fetched tree: the passes one after the other; what is
\* left goes to the output loop
ApplySearch ==
    /\ fl.pc = "input"
    /\ \E f \in FilterOptions, types \in TypeSettings,
          sz \in {z \in SizeSettings : SizesAccepted(z[1], z[2])},
          fp \in BOOLEAN :
           LET o == [Options(f, <<>>, 1) EXCEPT !.FileTypes = types,
                                               !.MinSize = sz[1],
                                               !.MaxSize = sz[2],
                                               !.FullPath = fp]
               r == FilterTree(fl.in, o)
           IN  fl' = [Filtered("search", o, r.entries, r.err)
                         EXCEPT !.pc = IF Len(r.entries) = 0 THEN "done"
                                                             ELSE "emit"]
    /\ UNCHANGED <<FindVars, lr, gq, oc>>

\* the line of the Match call the output loop is at
SearchLine ==
    Line(SearchCaller, "match", SearchedRepo, fl.out[Len(fl.written) + 1].Path)

\* the output loop calls Output.Match: o.mu.Lock(), and the line starts to
\* be written
SearchMatchLock ==
    /\ fl.pc = "emit"
    /\ CanLock(mu)
    /\ mu' = SearchCaller
    /\ stdout' = Append(stdout, Piece(SearchLine, 1))
    /\ fl' = [fl EXCEPT !.pc = "match"]
    /\ UNCHANGED <<FindButOutput, stderr, lr, gq, oc>>

\* the rest of the line is written, the deferred o.mu.Unlock(), and the
\* loop goes to the next entry
SearchMatchUnlock ==
    /\ fl.pc = "match"
    /\ mu' = 0
    /\ stdout' = Append(stdout, Piece(SearchLine, 2))
    /\ fl' = [fl EXCEPT !.written = Append(fl.written, SearchLine.text),
                        !.pc = IF Len(fl.written) + 1 = Len(fl.out)
                               THEN "done" ELSE "emit"]
    /\ UNCHANGED <<FindButOutput, stderr, lr, gq, oc>>

FilterNext ==
    \/ ApplyType
    \/ ApplyExtension
    \/ ApplySize
    \/ ApplyPattern
    \/ ApplyExcludes
    \/ ApplySearch
    \/ SearchMatchLock
    \/ SearchMatchUnlock

FilterSpec == FilterInit /\ [][FilterNext]_vars

\* ------------------------------------------------------------------------
\* One Output called by several goroutines at once
\* ------------------------------------------------------------------------
\* the functions of Output, each called by a goroutine of its own
OutputFuncs == <<"Match", "Warningf", "Infof">>
Callers == 1..Len(OutputFuncs)

\* the line a call of the function writes
CallLine(g) ==
    CASE OutputFuncs[g] = "Match" ->
            Line(g, "match", <<"o", "/", "r">>, <<"f">>)
      [] OutputFuncs[g] = "Warningf" -> Line(g, "warn", <<>>, <<"w">>)
      [] OutputFuncs[g] = "Infof" -> Line(g, "info", <<>>, <<"i">>)

\* Match writes to stdout, Warningf and Infof write to stderr
CallToStdout(g) == OutputFuncs[g] = "Match"

OutputInit ==
    /\ FindIdle
    /\ \E calls \in [Callers -> 1..MaxCalls] :
           oc = [pc |-> "calling",
                 calls |-> calls,
                 left |-> calls,
                 w |-> [g \in Callers |-> FALSE]]
    /\ fl = NoCall
    /\ lr = NoCall
    /\ gq = NoCall

\* o.mu.Lock(), then the line starts to be written
CallLock(g) ==
    /\ oc.pc = "calling"
    /\ oc.left[g] > 0
    /\ ~oc.w[g]
    /\ CanLock(mu)
    /\ mu' = g
    /\ oc' = [oc EXCEPT !.w[g] = TRUE]
    /\ IF CallToStdout(g)
       THEN /\ stdout' = Append(stdout, Piece(CallLine(g), 1))
            /\ UNCHANGED stderr
       ELSE /\ stderr' = Append(stderr, Piece(CallLine(g), 1))
            /\ UNCHANGED stdout
    /\ UNCHANGED <<FindButOutput, fl, lr, gq>>

\* the rest of the line is written, and the deferred o.mu.Unlock()
CallUnlock(g) ==
    /\ oc.pc = "calling"
    /\ oc.w[g]
    /\ mu' = 0
    /\ oc' = [oc EXCEPT !.w[g] = FALSE, !.left[g] = oc.left[g] - 1]
    /\ IF CallToStdout(g)
       THEN /\ stdout' = Append(stdout, Piece(CallLine(g), 2))
            /\ UNCHANGED stderr
       ELSE /\ stderr' = Append(stderr, Piece(CallLine(g), 2))
            /\ UNCHANGED stdout
    /\ UNCHANGED <<FindButOutput, fl, lr, gq>>

OutputNext == \E g \in Callers : CallLock(g) \/ CallUnlock(g)

\* the Output as it is called: by the goroutines of a Find, or by
\* goroutines that call Match, Warningf and Infof
OutputSpec == (Init \/ OutputInit) /\ [][Next \/ OutputNext]_vars

\* ------------------------------------------------------------------------
\* The type pass over entries of every mode
\* ------------------------------------------------------------------------
\* the modes of the Git tree entries, a mode Git does not have, and no mode
Modes ==
    {"040000", "120000", "160000", "100755", "100644", "100664", "999999", ""}

\* github.FileType
FileTypes == {"file", "directory", "symlink", "executable", "submodule"}

\* the values of --type: no type, each type, and some lists of two
TypeLists ==
    {<<>>} \cup {<<t>> : t \in FileTypes}
    \cup { <<"file", "directory">>, <<"executable", "symlink">>,
           <<"submodule", "file">> }

ModeInit ==
    /\ FindIdle
    /\ \E modes \in SeqsUpTo(Modes, MaxModes) :
           fl = [pc |-> "input",
                 in |-> [k \in 1..Len(modes) |->
                            [Path |-> <<"f">>, Mode |-> modes[k], Size |-> 1]]]
    /\ lr = NoCall
    /\ gq = NoCall
    /\ oc = NoCall

ApplyTypeList ==
    /\ fl.pc = "input"
    /\ \E types \in TypeLists :
           fl' = Filtered("type", <<types>>, filterByType(fl.in, types), FALSE)
    /\ UNCHANGED <<FindVars, lr, gq, oc>>

ModeSpec == ModeInit /\ [][ApplyTypeList]_vars

\* ------------------------------------------------------------------------
\* Client.ListRepos on its own: the owner's type, the server-side hint, the
\* pages and the client-side filter. PageSize stands for pageSize, scaled
\* down. A repository that is both a fork and a mirror is left out of the
\* listings.
\* ------------------------------------------------------------------------
OwnerTypes == {"User", "Organization"}

\* mapRepoTypes: the value of the API's type parameter
mapRepoTypes(types, ownerType) ==
    IF types = RepoTypes(TRUE, FALSE, FALSE, FALSE)
    THEN IF ownerType = "User" THEN "owner" ELSE "sources"
    ELSE IF types = RepoTypes(FALSE, TRUE, FALSE, FALSE)
              /\ ownerType = "Organization"
         THEN "forks"
         ELSE "all"

RepoKinds ==
    {"source", "fork", "archived-source", "archived-fork", "mirror", "empty",
     "nobranch"}

\* the i-th repository of a listing, of the given kind
RepoOfKind(kind, i) ==
    [name |-> i,
     branch |-> IF kind = "nobranch" THEN <<>> ELSE <<"m">>,
     size |-> IF kind = "empty" THEN 0 ELSE 1024,
     fork |-> kind \in {"fork", "archived-fork"},
     archived |-> kind \in {"archived-source", "archived-fork"},
     mirror |-> kind = "mirror"]

Listings ==
    { [i \in 1..Len(ks) |-> RepoOfKind(ks[i], i)] :
        ks \in SeqsUpTo(RepoKinds, MaxListed) \cup {<<>>} }

\* what the listing endpoint serves for a type parameter when it honours
\* it; the mocked endpoint of the tests serves everything
Served(listing, hint, honours) ==
    LET Sent(r) == CASE hint = "sources" -> ~r.fork
                     [] hint = "forks" -> r.fork
                     [] OTHER -> TRUE
    IN  IF honours THEN SelectSeq(listing, Sent) ELSE listing

\* the page of that number, of PageSize entries at most
PageOf(served, page) ==
    LET from == (page - 1) * PageSize + 1
        to == IF page * PageSize < Len(served) THEN page * PageSize
              ELSE Len(served)
    IN  SubSeq(served, from, to)

\* mutant of Accumulate: a page asked for with a type parameter other than
\* "all" is taken as the server filtered it
AccumulateTrustingHint(call, page) ==
    call.acc \o (IF call.hint = "all" THEN FilterRepos(page, call.types)
                 ELSE page)

\* the repositories of a page that pass the client-side filter are added
\* to those found so far
Accumulate(call, page) == call.acc \o FilterRepos(page, call.types)

\* mutant of MorePages: the loop ends on an empty page only
MorePagesUntilEmpty(page) == Len(page) > 0

\* the loop goes on after a full page
MorePages(page) == ~(Len(page) < PageSize)

ListInit ==
    /\ FindIdle
    /\ \E listing \in Listings, ownerType \in OwnerTypes,
          types \in AllRepoTypes, honours \in BOOLEAN :
           lr = [pc |-> "ownertype", listing |-> listing,
                 ownerType |-> ownerType, types |-> types,
                 honours |-> honours, hint |-> "none", page |-> 0,
                 requests |-> <<>>, pages |-> <<>>, acc |-> <<>>,
                 err |-> FALSE]
    /\ fl = NoCall
    /\ gq = NoCall
    /\ oc = NoCall

\* GetOwnerType answers: the type parameter is chosen, page 1 comes next
ListOwnerType ==
    /\ lr.pc = "ownertype"
    /\ lr' = [lr EXCEPT !.pc = "page",
                        !.hint = mapRepoTypes(lr.types, lr.ownerType),
                        !.page = 1]
    /\ UNCHANGED <<FindVars, fl, gq, oc>>

\* GetOwnerType fails
ListOwnerTypeFails ==
    /\ lr.pc = "ownertype"
    /\ lr' = [lr EXCEPT !.pc = "done", !.err = TRUE]
    /\ UNCHANGED <<FindVars, fl, gq, oc>>

\* one request of the loop: the page lr.page is fetched and filtered
ListPage ==
    /\ lr.pc = "page"
    /\ LET page == PageOf(Served(lr.listing, lr.hint, lr.honours), lr.page)
       IN  lr' = [lr EXCEPT !.requests = Append(lr.requests, lr.page),
                           !.pages = Append(lr.pages, page),
                           !.acc = Accumulate(lr, page),
                           !.page = IF MorePages(page) THEN lr.page + 1
                                    ELSE lr.page,
                           !.pc = IF MorePages(page) THEN "page" ELSE "done"]
    /\ UNCHANGED <<FindVars, fl, gq, oc>>

\* the request of a page fails: ListRepos returns the error
ListPageFails ==
    /\ lr.pc = "page"
    /\ lr' = [lr EXCEPT !.requests = Append(lr.requests, lr.page),
                        !.acc = <<>>,
                        !.pc = "done",
                        !.err = TRUE]
    /\ UNCHANGED <<FindVars, fl, gq, oc>>

ListNext ==
    \/ ListOwnerType
    \/ ListOwnerTypeFails
    \/ ListPage
    \/ ListPageFails

ListSpec == ListInit /\ [][ListNext]_vars

\* every request is answered
ListFairSpec == ListSpec /\ WF_vars(ListOwnerType \/ ListPage)

\* ------------------------------------------------------------------------
\* Client.GetFileCommitDates on its own: the paths are numbered 1..n
\* ------------------------------------------------------------------------
batchSize == 100

PathsOf(n) == [k \in 1..n |-> k]

\* mutant of BatchEnd: the slice ends one path early
BatchEndShort(i, n) ==
    IF i + batchSize - 1 < n THEN i + batchSize - 1 ELSE n

\* end := min(i+batchSize, len(paths))
BatchEnd(i, n) == IF i + batchSize < n THEN i + batchSize ELSE n

\* batch := paths[i:end], i counted from 0
Batch(paths, i) == SubSeq(paths, i + 1, BatchEnd(i, Len(paths)))

\* the date of the last commit that touched a path, as the API has it
DateOf(path) == 1000 + path

\* buildFileHistoryQuery: the path at index j of the batch (from 0) is
\* queried under the alias file<j>; the alias is modelled by j
Aliases(batch) == 0..(Len(batch) - 1)

\* the answers to the query of a batch, response.Repository.Ref.Target: a
\* map from alias to the nodes of its history, at most one. Every alias
\* has a commit; the first alias is absent from the map; the aliases of odd
\* index have an empty history; the map is empty.
Answers(batch) ==
    { [j \in Aliases(batch) |-> <<DateOf(batch[j + 1])>>],
      [j \in Aliases(batch) \ {0} |-> <<DateOf(batch[j + 1])>>],
      [j \in Aliases(batch) |->
          IF j % 2 = 1 THEN <<>> ELSE <<DateOf(batch[j + 1])>>],
      [j \in {} |-> <<>>] }

\* mutant of Extracted: the path of a result is taken at the position of
\* the result, not at the index of its alias
ExtractedByPosition(batch, answer) ==
    LET Has(j) == (j - 1) \in DOMAIN answer /\ Len(answer[j - 1]) > 0
        js == SelectSeq([j \in 1..Len(batch) |-> j], Has)
    IN  [k \in 1..Len(js) |->
            [Path |-> batch[k], CommittedDate |-> answer[js[k] - 1][1]]]

\* the results of one answer, in the order of the batch: an alias that is
\* missing or has no node is skipped
Extracted(batch, answer) ==
    LET Has(j) == (j - 1) \in DOMAIN answer /\ Len(answer[j - 1]) > 0
        js == SelectSeq([j \in 1..Len(batch) |-> j], Has)
    IN  [k \in 1..Len(js) |->
            [Path |-> batch[js[k]], CommittedDate |-> answer[js[k] - 1][1]]]

GqInit ==
    /\ FindIdle
    /\ \E n \in 0..MaxPaths :
           gq = [pc |-> "call", paths |-> PathsOf(n), i |-> 0,
                 queries |-> <<>>, answers |-> <<>>, results |-> <<>>,
                 err |-> FALSE]
    /\ fl = NoCall
    /\ lr = NoCall
    /\ oc = NoCall

\* the call: nothing to do without paths, otherwise the loop starts at 0
GqCall ==
    /\ gq.pc = "call"
    /\ gq' = [gq EXCEPT !.pc = IF Len(gq.paths) = 0 THEN "done" ELSE "loop"]
    /\ UNCHANGED <<FindVars, fl, lr, oc>>

\* one turn of the loop: the query of the batch at i is answered
GqBatch ==
    /\ gq.pc = "loop"
    /\ LET batch == Batch(gq.paths, gq.i)
       IN  \E answer \in Answers(batch) :
               gq' = [gq EXCEPT
                        !.queries = Append(gq.queries, batch),
                        !.answers = Append(gq.answers, answer),
                        !.results = gq.results \o Extracted(batch, answer),
                        !.i = gq.i + batchSize,
                        !.pc = IF gq.i + batchSize < Len(gq.paths)
                               THEN "loop" ELSE "done"]
    /\ UNCHANGED <<FindVars, fl, lr, oc>>

\* mutant of GqBatchFails: the results of the batches before are returned
\* with the error
GqBatchFailsKeepsResults ==
    /\ gq.pc = "loop"
    /\ gq' = [gq EXCEPT
                 !.queries = Append(gq.queries, Batch(gq.paths, gq.i)),
                 !.err = TRUE,
                 !.pc = "done"]
    /\ UNCHANGED <<FindVars, fl, lr, oc>>

\* the query of the batch at i fails, by an error of the API or because the
\* context is cancelled: the error is returned without results
GqBatchFails ==
    /\ gq.pc = "loop"
    /\ gq' = [gq EXCEPT
                 !.queries = Append(gq.queries, Batch(gq.paths, gq.i)),
                 !.results = <<>>,
                 !.err = TRUE,
                 !.pc = "done"]
    /\ UNCHANGED <<FindVars, fl, lr, oc>>

GqNext ==
    \/ GqCall
    \/ GqBatch
    \/ GqBatchFails

GqSpec == GqInit /\ [][GqNext]_vars

\* ------------------------------------------------------------------------
\* Find over the repositories of every kind, under every --repo-types
\* ------------------------------------------------------------------------
\* the owner c, its source, its forks, its archived repositories and its
\* mirror, its empty repositories, a repository that does not exist, and a
\* spec that does not parse
TypesPool ==
    { <<"c">>,
      <<"c", "/", "s">>,
      <<"c", "/", "f">>,
      <<"c", "/", "a", "f">>,
      <<"c", "/", "a", "s">>,
      <<"c", "/", "m", "i">>,
      <<"c", "/", "e">>,
      <<"c", "/", "n">>,
      <<"c", "/", "x">>,
      <<"c", "/", "s", "/", "q">>,
      <<"c", "/", "s", "@", "v">>,
      <<"c", "/", "s", "@", "v", "/", "w">> }

TypesInit ==
    /\ \E specs \in SeqsUpTo(TypesPool, MaxTypeSpecs), types \in AllRepoTypes :
           opts = [Options(PlainGo, specs, 1)
                      EXCEPT !.RepoTypes = types]
    /\ SizesAccepted(opts.MinSize, opts.MaxSize)
    /\ FindEntered
    /\ fl = NoCall /\ lr = NoCall /\ gq = NoCall /\ oc = NoCall

TypesSpec == TypesInit /\ [][Next]_vars

\* ------------------------------------------------------------------------
\* What the properties speak of
\* ------------------------------------------------------------------------
\* the tasks that hold an admission slot
InFlight == {t \in Tasks : task[t].pc \notin {"queued", "wgdone", "done"}}

\* the tasks whose goroutine was started
Started == {t \in Tasks : task[t].pc # "queued"}

\* the tasks whose searchRepo returned an error
Failed(t) == task[t].err # "none"

\* every repository had its task, every task ended, and Find returned
AllTasksEnded ==
    /\ pc = "done"
    /\ Len(repos) > 0
    /\ \A t \in Tasks : task[t].pc = "done"

\* the lines task t began on a stream, in order
LinesBy(stream, t) ==
    LET Mine(p) == p.part = 1 /\ p.line.w = t
        ps == SelectSeq(stream, Mine)
    IN  [k \in 1..Len(ps) |-> ps[k].line]

\* the paths searchRepo has to report for the tree task t fetched
DuePaths(t) ==
    LET es == FilterTree(task[t].tree, opts).entries
    IN  [k \in 1..Len(es) |-> es[k].Path]

MatchedPaths(t) ==
    LET ls == LinesBy(stdout, t)
    IN  [k \in 1..Len(ls) |-> ls[k].text]

WarningsNaming(t) ==
    LET Names(l) == l.repo = repos[t].FullName
    IN  Len(SelectSeq(LinesBy(stderr, t), Names))

FailureWarnings(t) ==
    LET IsFail(l) == l.kind = "warn-fail" /\ l.repo = repos[t].FullName
    IN  Len(SelectSeq(LinesBy(stderr, t), IsFail))

\* ------------------------------------------------------------------------
\* C1
\* ------------------------------------------------------------------------
\* C1: the number of tasks that hold an admission slot (searchRepo calls in
\* flight) never exceeds Options.Jobs, and the semaphore counts exactly them.
C1_ConcurrencyBound ==
    /\ Cardinality(InFlight) <= opts.Jobs
    /\ semCur = Cardinality(InFlight)

\* all the slots are taken while a repository still waits for admission
C1_Witness ==
    /\ pc = "schedule"
    /\ opts.Jobs = 2
    /\ Cardinality(InFlight) = 2
    /\ \E t \in Tasks : task[t].pc = "queued"

\* ------------------------------------------------------------------------
\* C2
\* ------------------------------------------------------------------------
\* C2 as claimed: when the tasks of a strict subset of the repositories
\* failed, every other repository's matches are all written, each failing
\* task wrote exactly one warning naming its repository, and Find returned
\* nil.
C2_AsClaimed ==
    (AllTasksEnded /\ \E t \in Tasks : ~Failed(t)) =>
        /\ ret.kind = "nil"
        /\ \A t \in Tasks : ~Failed(t) => MatchedPaths(t) = DuePaths(t)
        /\ \A t \in Tasks : Failed(t) => WarningsNaming(t) = 1

\* C2 amended: when the tasks of a strict subset of the repositories failed,
\* every other repository's matches are all written, each failing task wrote
\* exactly one failure warning naming its repository (after the truncation
\* warning, when its tree was truncated), and Find returned nil.
C2_PartialFailure ==
    (AllTasksEnded /\ \E t \in Tasks : ~Failed(t)) =>
        /\ ret.kind = "nil"
        /\ \A t \in Tasks : ~Failed(t) => MatchedPaths(t) = DuePaths(t)
        /\ \A t \in Tasks : Failed(t) =>
              /\ FailureWarnings(t) = 1
              /\ WarningsNaming(t) = IF task[t].trunc THEN 2 ELSE 1

\* of three repositories the second failed, and the first wrote matches
C2_Witness ==
    /\ AllTasksEnded
    /\ Len(repos) = 3
    /\ ~Failed(1) /\ Failed(2) /\ ~Failed(3)
    /\ Len(MatchedPaths(1)) + Len(MatchedPaths(3)) > 0

\* ------------------------------------------------------------------------
\* C3
\* ------------------------------------------------------------------------
\* C3: once every repository's task has ended, Find returns the error
\* "failed to search all N repositories", N the number of deduplicated
\* repositories, if every task failed, and nil if at least one succeeded.
C3_AllFailFatal ==
    AllTasksEnded =>
        IF \A t \in Tasks : Failed(t)
        THEN ret = Return("allfailed", Len(repos))
        ELSE ret = Return("nil", 0)

\* two repositories, resolved from specs that overlap, both failed
C3_Witness ==
    /\ AllTasksEnded
    /\ Len(repos) = 2
    /\ Len(allRepos) > 2
    /\ \A t \in Tasks : Failed(t)
    /\ ret.n = 2

\* ------------------------------------------------------------------------
\* C4
\* ------------------------------------------------------------------------
\* C4: no two search tasks that were started are for the same full name.
C4_NoRepoSearchedTwice ==
    \A t1, t2 \in Started :
        repos[t1].FullName = repos[t2].FullName => t1 = t2

\* a repository was resolved twice and every task was started
C4_Witness ==
    /\ \E i, j \in 1..Len(allRepos) :
          i # j /\ allRepos[i].FullName = allRepos[j].FullName
    /\ Len(repos) > 1
    /\ Started = Tasks

\* ------------------------------------------------------------------------
\* C5
\* ------------------------------------------------------------------------
\* the positions of allRepos whose full name did not occur before
FirstSeen ==
    {j \in 1..Len(allRepos) :
        \A k \in 1..(j - 1) : allRepos[k].FullName # allRepos[j].FullName}

\* C5: the schedule is the resolved list without the later occurrences of a
\* full name: its k-th repository is the value at the k-th first-seen
\* position, and the tasks started are a prefix of the schedule.
C5_DedupeKeepsFirstInOrder ==
    pc \in {"schedule", "wait", "cancelwait"} \/ Len(repos) > 0 =>
        /\ Len(repos) = Cardinality(FirstSeen)
        /\ \A j \in FirstSeen :
              repos[Cardinality({k \in FirstSeen : k <= j})] = allRepos[j]
        /\ \E n \in 0..Len(repos) : Started = 1..n

\* a/x was resolved explicitly and again by the expansion of its owner: the
\* explicit value is scheduled first, and the owner's other repository after
C5_Witness ==
    /\ Len(allRepos) = 3
    /\ allRepos[1].FullName = allRepos[2].FullName
    /\ allRepos[1].spec # allRepos[2].spec
    /\ Len(repos) = 2
    /\ repos[1].spec = 1
    /\ Started = {1}

\* ------------------------------------------------------------------------
\* C6
\* ------------------------------------------------------------------------
\* C6 as claimed: a resolution failure for one repository spec never aborts
\* Find: when Find has returned from a run that had its client, the resolve
\* loop has been through every spec and Find returned no resolution error.
C6_AsClaimed ==
    (pc = "done" /\ ret.kind # "clienterror") =>
        /\ specIdx > Len(opts.RepoSpecs)
        /\ ret.kind \notin {"specerror", "listerror"}

\* ------------------------------------------------------------------------
\* C7
\* ------------------------------------------------------------------------
OutputPcs == {"truncwarn", "failwarn", "emit"}

\* the goroutines inside Match, Warningf or Infof, between Lock and Unlock:
\* tasks of Find, or the callers of the three functions
Writing ==
    {t \in Tasks : task[t].w}
        \cup (IF oc.pc = "calling" THEN {g \in Callers : oc.w[g]} ELSE {})

\* a stream holds whole lines: every line's two pieces are adjacent, and
\* only the writer that holds the mutex has a line half written
WholeLines(stream) ==
    \A k \in 1..Len(stream) :
        IF k % 2 = 1
        THEN /\ stream[k].part = 1
             /\ k < Len(stream) => stream[k + 1] = Piece(stream[k].line, 2)
             /\ k = Len(stream) =>
                   /\ stream[k].line.w \in Writing
                   /\ mu = stream[k].line.w
        ELSE stream[k].part = 2

\* the Output calls task t has begun, by what it has done so far
MatchCalls(t) ==
    IF task[t].pc = "emit"
    THEN (task[t].i - 1) + (IF task[t].w THEN 1 ELSE 0)
    ELSE Len(task[t].entries)

WarnCalls(t) ==
    (IF task[t].trunc /\ (task[t].pc # "truncwarn" \/ task[t].w) THEN 1 ELSE 0)
    + (IF Failed(t) /\ (task[t].pc # "failwarn" \/ task[t].w) THEN 1 ELSE 0)

\* the calls caller g has ended
CallsEnded(g) == oc.calls[g] - oc.left[g]

\* the calls that the callers of the functions fs are to make in all
RECURSIVE CallsOf(_, _)
CallsOf(fs, g) ==
    IF g = 0 THEN 0
    ELSE (IF OutputFuncs[g] \in fs THEN oc.calls[g] ELSE 0) + CallsOf(fs, g - 1)

\* the lines of a stream that are written to their end
EndedLines(stream) ==
    LET Last(p) == p.part = 2
    IN  Len(SelectSeq(stream, Last))

\* C7: at most one caller is inside Match, Warningf or Infof at any time,
\* it is the holder of the mutex, both streams hold whole lines only, and
\* every call a caller made is there as one line, for the goroutines of
\* Find and for goroutines that call Match, Warningf and Infof M times
\* each: when these have made all their calls, stdout holds the lines of
\* all Match calls and stderr those of all Warningf and Infof calls.
C7_OutputAtomic ==
    /\ Cardinality(Writing) <= 1
    /\ \A t \in Tasks : task[t].w <=> mu = t
    /\ WholeLines(stdout)
    /\ WholeLines(stderr)
    /\ \A t \in Tasks :
          /\ Len(LinesBy(stdout, t)) = MatchCalls(t)
          /\ Len(LinesBy(stderr, t)) = WarnCalls(t)
    /\ oc.pc = "calling" =>
          /\ \A g \in Callers :
                /\ oc.w[g] <=> mu = g
                /\ Len(LinesBy(IF CallToStdout(g) THEN stdout ELSE stderr, g))
                       = CallsEnded(g) + (IF oc.w[g] THEN 1 ELSE 0)
                /\ LinesBy(IF CallToStdout(g) THEN stderr ELSE stdout, g) = <<>>
                /\ \A k \in 1..Len(stdout) : stdout[k].line.w = g =>
                       stdout[k].line = CallLine(g)
                /\ \A k \in 1..Len(stderr) : stderr[k].line.w = g =>
                       stderr[k].line = CallLine(g)
          /\ (\A g \in Callers : oc.left[g] = 0) =>
                /\ EndedLines(stdout) = CallsOf({"Match"}, Len(OutputFuncs))
                /\ EndedLines(stderr) =
                       CallsOf({"Warningf", "Infof"}, Len(OutputFuncs))
                /\ Len(stdout) = 2 * EndedLines(stdout)
                /\ Len(stderr) = 2 * EndedLines(stderr)

\* a goroutine is inside Infof, its line half written to stderr, while the
\* goroutine that calls Warningf waits at the mutex for its second call,
\* after the Match, Warningf and Infof callers have each written a line
C7_Witness ==
    /\ oc.pc = "calling"
    /\ \E g1, g2, g3 \in Callers :
          /\ OutputFuncs[g1] = "Infof"
          /\ OutputFuncs[g2] = "Warningf"
          /\ OutputFuncs[g3] = "Match"
          /\ oc.w[g1] /\ mu = g1
          /\ CallsEnded(g1) = 1
          /\ ~oc.w[g2] /\ oc.left[g2] = 1 /\ CallsEnded(g2) = 1
          /\ CallsEnded(g3) > 0
          /\ stderr[Len(stderr)] = Piece(CallLine(g1), 1)

\* ------------------------------------------------------------------------
\* C8
\* ------------------------------------------------------------------------
IsPrefix(s1, s2) == Len(s1) <= Len(s2) /\ SubSeq(s2, 1, Len(s1)) = s1

\* C8: once ctx is done no task is started any more, what was written to
\* stdout stays, and a scheduling loop that finds ctx done leads to Find
\* returning the cancellation error.
C8_CancelStopsAdmission ==
    /\ [][cancelled => Started' = Started]_vars
    /\ [][IsPrefix(stdout, stdout')]_vars
    /\ (pc = "schedule" /\ cancelled) ~> (pc = "done" /\ ret.kind = "canceled")

\* Find returned the cancellation error with a repository never admitted,
\* after the other task had written its matches, and with a slot free
C8_Witness ==
    /\ pc = "done"
    /\ ret.kind = "canceled"
    /\ \E t \in Tasks : task[t].pc = "queued"
    /\ opts.Jobs = 2
    /\ Cardinality(Started) = 1
    /\ Len(stdout) > 0

\* ------------------------------------------------------------------------
\* C9
\* ------------------------------------------------------------------------
\* C9 as claimed: a run in which a task failed because of the cancellation
\* is never reported as "failed to search all N repositories".
C9_AsClaimed ==
    (pc = "done" /\ \E t \in Tasks : task[t].err = "canceled") =>
        ret.kind # "allfailed"

\* ------------------------------------------------------------------------
\* C10
\* ------------------------------------------------------------------------
\* C10: a task whose searchRepo returned an error (GetTree failed, or the
\* pattern or an exclude pattern was malformed) has written no match line:
\* stdout holds nothing of its repository, and all it wrote are warnings
\* that name its repository, the failure warning being one of them when it
\* has ended.
C10_FailedRepoWritesNoMatch ==
    \A t \in Tasks : Failed(t) =>
        /\ LinesBy(stdout, t) = <<>>
        /\ \A k \in 1..Len(stdout) : stdout[k].line.repo # repos[t].FullName
        /\ \A k \in 1..Len(stderr) : stderr[k].line.w = t =>
              /\ stderr[k].line.kind \in {"warn-trunc", "warn-fail"}
              /\ stderr[k].line.repo = repos[t].FullName
        /\ task[t].pc = "done" => FailureWarnings(t) = 1

\* a task failed on a malformed exclude pattern although entries of its tree
\* match the pattern, and it has ended
C10_Witness ==
    \E t \in Tasks :
        /\ task[t].err = "filter"
        /\ task[t].pc = "done"
        /\ ValidPattern(opts.Pattern)
        /\ filterByPattern(task[t].tree, opts.Pattern, opts.FullPath,
                           opts.IgnoreCase).entries # <<>>

\* ------------------------------------------------------------------------
\* C11
\* ------------------------------------------------------------------------
\* the failure warnings of a filter pass
FilterWarnings ==
    {k \in 1..Len(stderr) : /\ stderr[k].line.kind = "warn-fail"
                            /\ stderr[k].line.text = <<"filter">>}

\* C11 as claimed: in a run whose pattern is malformed no repository spec is
\* resolved, no task is started (no tree is fetched), and no repository's
\* warning reports the pattern.
C11_AsClaimed ==
    ~ValidPattern(opts.Pattern) =>
        /\ specIdx = 1
        /\ allRepos = <<>>
        /\ Started = {}
        /\ FilterWarnings = {}

\* ------------------------------------------------------------------------
\* C12
\* ------------------------------------------------------------------------
TruncationWarnings(t) ==
    LET IsTrunc(l) == l.kind = "warn-trunc" /\ l.repo = repos[t].FullName
    IN  Len(SelectSeq(LinesBy(stderr, t), IsTrunc))

\* C12: a truncated tree is no failure.  The tasks counted in errorCount are
\* those whose searchRepo returned an error, and a truncated tree alone is
\* not one: a task that got a truncated tree and has ended has written
\* exactly one truncation warning for its repository, and unless a filter
\* pass failed on a malformed pattern it has written every match of the
\* partial list, no other warning, and has not failed.
C12_TruncationNotAnError ==
    /\ errorCount = Cardinality({t \in Tasks : Failed(t)})
    /\ \A t \in Tasks :
          /\ Failed(t) => task[t].err \in {"fetch", "canceled", "filter"}
          /\ task[t].err \in {"fetch", "canceled"} => ~task[t].trunc
          /\ (task[t].trunc /\ task[t].pc = "done") =>
                /\ TruncationWarnings(t) = 1
                /\ ~FilterTree(task[t].tree, opts).err =>
                      /\ ~Failed(t)
                      /\ MatchedPaths(t) = DuePaths(t)
                      /\ WarningsNaming(t) = 1

\* Find returned nil after its only repository's tree came truncated and the
\* matches of the partial list were written
C12_Witness ==
    /\ pc = "done"
    /\ ret.kind = "nil"
    /\ Len(repos) = 1
    /\ task[1].trunc
    /\ task[1].pc = "done"
    /\ Len(MatchedPaths(1)) = 2
    /\ TruncationWarnings(1) = 1
    /\ errorCount = 0

\* ------------------------------------------------------------------------
\* C13
\* ------------------------------------------------------------------------
\* the resolve loop went through every spec and left no repository
ResolvedNothing ==
    /\ pc = "done"
    /\ specIdx > Len(opts.RepoSpecs)
    /\ repos = <<>>

\* the lines of the given kind on stderr
StderrLines(kind) ==
    {k \in 1..Len(stderr) : stderr[k].part = 1 /\ stderr[k].line.kind = kind}

\* C13: when the deduplicated set of repositories is empty, Find has written
\* one diagnostic about it to stderr (as the last line), has taken no slot of
\* the semaphore, has started no task, has written nothing to stdout and has
\* returned nil; and that diagnostic is written in no other run.
C13_EmptySetIsSuccess ==
    /\ ResolvedNothing =>
          /\ Cardinality(StderrLines("warn-norepos")) = 1
          /\ Len(stderr) >= 2
          /\ stderr[Len(stderr) - 1].line.kind = "warn-norepos"
          /\ semCur = 0
          /\ wgCount = 0
          /\ Tasks = {}
          /\ errorCount = 0
          /\ stdout = <<>>
          /\ ret = Return("nil", 0)
    /\ StderrLines("warn-norepos") # {} => ResolvedNothing

\* the owner has repositories, but none of the requested types: Find wrote
\* the diagnostic and nothing else, and returned nil
C13_Witness ==
    /\ ResolvedNothing
    /\ opts.RepoSpecs = << <<"c">> >>
    /\ opts.RepoTypes = RepoTypes(FALSE, FALSE, TRUE, FALSE)
    /\ Len(stderr) = 2
    /\ ret.kind = "nil"

\* ------------------------------------------------------------------------
\* C14
\* ------------------------------------------------------------------------
\* a is b with some elements left out
RECURSIVE IsSubseq(_, _)
IsSubseq(a, b) ==
    IF Len(a) = 0 THEN TRUE
    ELSE IF Len(b) = 0 THEN FALSE
    ELSE IF a[1] = b[1] THEN IsSubseq(Tail(a), Tail(b))
    ELSE IsSubseq(a, Tail(b))

Paths(entries) == [k \in 1..Len(entries) |-> entries[k].Path]

\* the tree README.md, main.go, cmd, cmd/tool.go
ExampleTree ==
    << File(<<"R", ".", "m", "d">>, 999),
       File(<<"m", ".", "g", "o">>, 1000),
       [Path |-> <<"c">>, Mode |-> "040000", Size |-> 0],
       File(<<"c", "/", "t", ".", "g", "o">>, 1001) >>

\* C14: whatever the entries and the settings, the output of the type, the
\* extension, the size, the pattern and the exclude pass, and of all the
\* passes of searchRepo together, is a subsequence of its input; while
\* searchRepo's output loop runs, one Match call per entry, what it has
\* written is a strict prefix of the paths of the output; when it has
\* ended, what it wrote are the paths of the output in that order, hence a
\* subsequence of the tree's paths; a pass without setting returns its
\* input.
C14_FiltersPreserveOrder ==
    /\ fl.pc \in {"emit", "match"} =>
           /\ IsPrefix(fl.written, Paths(fl.out))
           /\ fl.written # Paths(fl.out)
    /\ fl.pc = "done" =>
        /\ IsSubseq(fl.out, fl.in)
        /\ fl.stage = "search" =>
              /\ fl.written = Paths(fl.out)
              /\ IsSubseq(fl.written, Paths(fl.in))
        /\ (fl.stage = "type" /\ fl.setting = << <<>> >>) => fl.out = fl.in
        /\ (fl.stage = "extension" /\ fl.setting[1] = <<>>) => fl.out = fl.in
        /\ (fl.stage = "size" /\ fl.setting = <<0, 0>>) => fl.out = fl.in

\* pattern *.go matched against the basename over README.md, main.go, cmd,
\* cmd/tool.go: main.go is written, then cmd/tool.go
C14_Witness ==
    /\ fl.pc = "done"
    /\ fl.stage = "search"
    /\ fl.in = ExampleTree
    /\ fl.setting.Pattern = PatGo
    /\ ~fl.setting.FullPath
    /\ fl.setting.Excludes = <<>>
    /\ fl.written = << <<"m", ".", "g", "o">>, <<"c", "/", "t", ".", "g", "o">> >>

\* ------------------------------------------------------------------------
\* C15
\* ------------------------------------------------------------------------
\* the spec at index i names a repository that exists, has commits and a
\* default branch
NamesSearchable(i) ==
    LET p == parseRepoSpec(opts.RepoSpecs[i])
    IN  /\ ~p.err
        /\ p.repo # <<>>
        /\ Contains(OwnerRepoNames(p.owner), p.repo)
        /\ ~IsEmptyRepo(RepoFields(p.owner, p.repo))

SpecFullName(i) ==
    LET p == parseRepoSpec(opts.RepoSpecs[i])
    IN  Join(<<p.owner, p.repo>>, <<"/">>)

\* GetRepo failed on the repository of that name
GetRepoWarned(name) ==
    \E k \in StderrLines("warn-getrepo") : stderr[k].line.repo = name

\* the scheduling loop of Find is reached
Scheduling == pc \in {"schedule", "wait", "cancelwait"} \/ Len(repos) > 0

\* C15: whatever --repo-types is (the default, the empty set and every
\* other) and whatever the fork, archived and mirror flags of the
\* repository are, a processed spec owner/repo naming a repository with
\* commits and a default branch for which GetRepo raised no error has that
\* repository in the resolved list, and once the scheduling loop is reached
\* the repository is one of those it ranges over.
C15_ExplicitBypassesTypes ==
    \A i \in 1..Len(opts.RepoSpecs) :
        (i < specIdx /\ NamesSearchable(i) /\ ~GetRepoWarned(SpecFullName(i))) =>
            /\ \E k \in 1..Len(allRepos) :
                   /\ allRepos[k].FullName = SpecFullName(i)
                   /\ allRepos[k].spec = i
            /\ Scheduling =>
                   \E t \in 1..Len(repos) :
                       /\ repos[t].FullName = SpecFullName(i)
                       /\ t \in 1..Len(task)

\* an archived fork named explicitly under the empty set of repository
\* types: its goroutine is started
C15_Witness ==
    /\ opts.RepoSpecs = << <<"c", "/", "a", "f">> >>
    /\ opts.RepoTypes = RepoTypes(FALSE, FALSE, FALSE, FALSE)
    /\ Len(repos) = 1
    /\ repos[1].Fork /\ repos[1].Archived
    /\ task[1].pc # "queued"

\* ------------------------------------------------------------------------
\* C16
\* ------------------------------------------------------------------------
\* the names of the repositories the spec at index i resolved to, in order
FromSpec(i) ==
    LET Mine(r) == r.spec = i
        rs == SelectSeq(allRepos, Mine)
    IN  [k \in 1..Len(rs) |-> rs[k].Name]

\* the spec at index i is the owner c and its listing is resolved
ExpandedC(i) ==
    /\ i \in 1..Len(opts.RepoSpecs)
    /\ opts.RepoSpecs[i] = <<"c">>
    /\ i < specIdx

\* C16 as stated: over an owner with a source, a fork, an archived fork and
\* an archived source, --repo-types forks,archives resolves to the archived
\* fork and nothing else, and --repo-types sources leaves the archived
\* source out.
C16_AsClaimed ==
    \A i \in 1..Len(opts.RepoSpecs) :
        ExpandedC(i) =>
            /\ opts.RepoTypes = RepoTypes(FALSE, TRUE, TRUE, FALSE) =>
                  FromSpec(i) = << <<"a", "f">> >>
            /\ opts.RepoTypes = RepoTypes(TRUE, FALSE, FALSE, FALSE) =>
                  ~Contains(FromSpec(i), <<"a", "s">>)

\* C16, amended: Archives admits the archived repositories of the requested
\* classes and takes nothing away: over that owner, forks,archives resolves
\* to the fork and the archived fork, in the order of the listing, sources
\* alone resolves to the source without the archived source, and under
\* every set an archived repository is resolved only when Archives is
\* requested and a repository that is not archived is resolved whenever its
\* class is requested.
C16_ArchivesAdmitArchived ==
    \A i \in 1..Len(opts.RepoSpecs) :
        ExpandedC(i) =>
            /\ opts.RepoTypes = RepoTypes(FALSE, TRUE, TRUE, FALSE) =>
                  FromSpec(i) = << <<"f">>, <<"a", "f">> >>
            /\ opts.RepoTypes = RepoTypes(TRUE, FALSE, FALSE, FALSE) =>
                  FromSpec(i) = << <<"s">> >>
            /\ (Contains(FromSpec(i), <<"a", "f">>)
                    \/ Contains(FromSpec(i), <<"a", "s">>)) =>
                  opts.RepoTypes.Archives
            /\ opts.RepoTypes.Forks <=> Contains(FromSpec(i), <<"f">>)
            /\ opts.RepoTypes.Sources <=> Contains(FromSpec(i), <<"s">>)

\* forks,archives over the owner c: the fork and the archived fork are
\* resolved and their goroutines exist
C16_Witness ==
    /\ opts.RepoSpecs = << <<"c">> >>
    /\ opts.RepoTypes = RepoTypes(FALSE, TRUE, TRUE, FALSE)
    /\ FromSpec(1) = << <<"f">>, <<"a", "f">> >>
    /\ Len(task) = 2

\* ------------------------------------------------------------------------
\* C17
\* ------------------------------------------------------------------------
\* the repository is one ListRepos is to return under the set of types
Wanted(r, types) ==
    /\ r.size > 0
    /\ r.branch # <<>>
    /\ \/ r.mirror /\ types.Mirrors
       \/ ~r.mirror /\ r.fork /\ types.Forks
       \/ ~r.mirror /\ ~r.fork /\ types.Sources
    /\ r.archived => types.Archives

\* C17: for every owner type, every set of repository types and every
\* listing, whether the endpoint honours the type parameter chosen by
\* mapRepoTypes or serves everything, a call of ListRepos that ends without
\* error returns the listed repositories that have a size above 0, a
\* default branch, a class (mirror, fork or source) in the set and are
\* archived only if Archives is in the set, in the order of the listing;
\* the empty set has the type parameter "all" and returns nothing.
C17_ResultIsClientFilter ==
    (lr.pc = "done" /\ ~lr.err) =>
        /\ LET Keep(r) == Wanted(r, lr.types)
           IN  lr.acc = SelectSeq(lr.listing, Keep)
        /\ lr.types = RepoTypes(FALSE, FALSE, FALSE, FALSE) =>
              /\ lr.hint = "all"
              /\ lr.acc = <<>>

\* the empty set over a listing with a source and a fork: everything was
\* asked for and served, nothing is returned
C17_Witness ==
    /\ lr.pc = "done"
    /\ ~lr.err
    /\ lr.types = RepoTypes(FALSE, FALSE, FALSE, FALSE)
    /\ lr.hint = "all"
    /\ Len(lr.listing) = 2
    /\ ~lr.listing[1].fork /\ lr.listing[1].size > 0
    /\ lr.listing[2].fork
    /\ lr.pages = <<lr.listing, <<>> >>
    /\ lr.acc = <<>>

\* ------------------------------------------------------------------------
\* C19
\* ------------------------------------------------------------------------
\* the sequences of a sequence of pages, one after the other
RECURSIVE Concat(_)
Concat(pages) ==
    IF Len(pages) = 0 THEN <<>> ELSE Head(pages) \o Concat(Tail(pages))

\* what the endpoint has to serve to the call
ServedToCall == Served(lr.listing, lr.hint, lr.honours)

\* the requests so far are the pages 1, 2, ... in order, each of them but
\* the last one answered by a full page, and the fetched pages hold the
\* first entries of what is served, each once
PagedInOrder ==
    /\ \A k \in 1..Len(lr.requests) : lr.requests[k] = k
    /\ \A k \in 1..Len(lr.pages) :
           /\ Len(lr.pages[k]) <= PageSize
           /\ k < Len(lr.pages) => Len(lr.pages[k]) = PageSize
    /\ Concat(lr.pages) = SubSeq(ServedToCall, 1, Len(Concat(lr.pages)))
    /\ lr.pc = "page" =>
           /\ lr.page = Len(lr.requests) + 1
           /\ \A k \in 1..Len(lr.pages) : Len(lr.pages[k]) = PageSize

\* a call that ended without error stopped on the first short page, having
\* fetched everything once
StoppedOnShortPage ==
    (lr.pc = "done" /\ ~lr.err /\ Len(lr.requests) > 0) =>
        /\ Len(lr.pages) = Len(lr.requests)
        /\ Len(lr.pages[Len(lr.pages)]) < PageSize
        /\ Concat(lr.pages) = ServedToCall
        /\ Len(lr.requests) = (Len(ServedToCall) \div PageSize) + 1
        /\ lr.acc = FilterRepos(ServedToCall, lr.types)
        /\ Len(ServedToCall) = PageSize + 1 => lr.requests = <<1, 2>>

\* C19: ListRepos asks for the pages 1, 2, ... in order with one page size,
\* asks for no page after a page with fewer entries than the page size,
\* ends after the first such page with every entry of every fetched page
\* accumulated once (PageSize + 1 repositories take two requests), and
\* every call ends when its requests are answered.
C19_PagingStopsOnShortPage ==
    /\ [](PagedInOrder /\ StoppedOnShortPage)
    /\ <>(lr.pc = "done")

\* PageSize + 1 repositories: a full page, then a page of one, then the end
C19_Witness ==
    /\ lr.pc = "done"
    /\ ~lr.err
    /\ Len(ServedToCall) = PageSize + 1
    /\ lr.requests = <<1, 2>>
    /\ Len(lr.pages[1]) = PageSize
    /\ Len(lr.pages[2]) = 1
    /\ Len(lr.acc) = PageSize + 1

\* ------------------------------------------------------------------------
\* C18
\* ------------------------------------------------------------------------
\* the spec at index i names a repository and is processed
ExplicitDone(i) ==
    /\ i < specIdx
    /\ ~parseRepoSpec(opts.RepoSpecs[i]).err
    /\ parseRepoSpec(opts.RepoSpecs[i]).repo # <<>>

\* the repository of that owner and name exists, has commits and a default
\* branch
Searchable(owner, name) ==
    /\ Contains(OwnerRepoNames(owner), name)
    /\ RepoFields(owner, name).size > 0
    /\ RepoFields(owner, name).branch # <<>>

\* C18: a processed spec owner/repo whose repository does not exist, has
\* size 0 or has no default branch resolves to no repository; every
\* processed spec owner/repo resolves to one repository or to none, and
\* those that resolve to none (the ones above, and the ones answered 403)
\* are as many as the warnings of GetRepo naming the repository; no
\* repository handed to the scheduling loop is missing, empty or without
\* default branch.
C18_GetRepoErrorsSkipRepo ==
    /\ \A i \in 1..Len(opts.RepoSpecs) :
           ExplicitDone(i) =>
               /\ ~Searchable(parseRepoSpec(opts.RepoSpecs[i]).owner,
                              parseRepoSpec(opts.RepoSpecs[i]).repo) =>
                      FromSpec(i) = <<>>
               /\ Len(FromSpec(i)) <= 1
               /\ Cardinality({k \in StderrLines("warn-getrepo") :
                                  stderr[k].line.repo = SpecFullName(i)})
                  = Cardinality({j \in 1..Len(opts.RepoSpecs) :
                                    /\ ExplicitDone(j)
                                    /\ SpecFullName(j) = SpecFullName(i)
                                    /\ FromSpec(j) = <<>>})
    /\ \A k \in 1..Len(allRepos) :
           Searchable(allRepos[k].Owner, allRepos[k].Name)
    /\ \A t \in 1..Len(repos) : Searchable(repos[t].Owner, repos[t].Name)

\* c/e has no commit: GetRepo fails, the warning is written, nothing is
\* resolved and Find ends without a goroutine
C18_Witness ==
    /\ opts.RepoSpecs = << <<"c", "/", "e">> >>
    /\ pc = "done"
    /\ GetRepoWarned(<<"c", "/", "e">>)
    /\ allRepos = <<>>
    /\ task = <<>>
    /\ stdout = <<>>

\* ------------------------------------------------------------------------
\* C20
\* ------------------------------------------------------------------------
SeqRange(seq) == {seq[k] : k \in 1..Len(seq)}

\* ceil(n / 100)
BatchesNeeded(n) == (n + 99) \div 100

\* C20: the queries issued so far hold consecutive slices of the paths, in
\* order from the first path on, each of 1 to 100 paths and each but the
\* last of exactly 100, no two of them sharing a path, and never more than
\* ceil(n/100) of them; a call that ended without error issued exactly
\* ceil(n/100) queries whose batches make up the whole list (100 and 50 for
\* 150 paths), and a call with no paths issued none and has no result.
C20_BatchesOfHundred ==
    /\ \A k \in 1..Len(gq.queries) :
           /\ Len(gq.queries[k]) \in 1..100
           /\ k < Len(gq.queries) => Len(gq.queries[k]) = 100
           /\ gq.queries[k] = SubSeq(gq.paths, 100 * (k - 1) + 1,
                                     100 * (k - 1) + Len(gq.queries[k]))
           /\ \A j \in 1..(k - 1) :
                  SeqRange(gq.queries[j]) \cap SeqRange(gq.queries[k]) = {}
    /\ Len(gq.queries) <= BatchesNeeded(Len(gq.paths))
    /\ (gq.pc = "done" /\ ~gq.err) =>
           /\ Len(gq.queries) = BatchesNeeded(Len(gq.paths))
           /\ Concat(gq.queries) = gq.paths
           /\ Len(gq.paths) = 150 =>
                  /\ Len(gq.queries) = 2
                  /\ Len(gq.queries[1]) = 100
                  /\ Len(gq.queries[2]) = 50
    /\ Len(gq.paths) = 0 => (gq.queries = <<>> /\ gq.results = <<>>)

\* 150 paths, every one with a commit: two queries, of 100 and of 50 paths,
\* and 150 results
C20_Witness ==
    /\ gq.pc = "done"
    /\ ~gq.err
    /\ Len(gq.paths) = 150
    /\ Len(gq.queries) = 2
    /\ Len(gq.queries[1]) = 100
    /\ Len(gq.queries[2]) = 50
    /\ Len(gq.results) = 150

\* ------------------------------------------------------------------------
\* C21
\* ------------------------------------------------------------------------
\* C21: a query of GetFileCommitDates that fails ends the call with the
\* error and without results, whatever the batches before it returned, and
\* nothing is queried or collected after it: once the error is there the
\* call does not change any more.
C21_FailedBatchFailsCall ==
    [][/\ gq'.err => (gq'.pc = "done" /\ gq'.results = <<>>)
       /\ (~gq.err /\ gq'.err) =>
             /\ Len(gq'.queries) = Len(gq.queries) + 1
             /\ gq'.answers = gq.answers
       /\ gq.err => gq' = gq]_vars

\* 250 paths: the first query returned 100 dates, the second failed, the
\* third is never made and nothing is returned
C21_Witness ==
    /\ gq.err
    /\ gq.pc = "done"
    /\ Len(gq.paths) = 250
    /\ Len(gq.queries) = 2
    /\ Len(gq.answers) = 1
    /\ Len(Extracted(gq.queries[1], gq.answers[1])) = 100
    /\ gq.results = <<>>

\* ------------------------------------------------------------------------
\* C22
\* ------------------------------------------------------------------------
\* the alias j of the k-th query (k from 1, j from 0) came with a commit
Dated(k, j) ==
    /\ j \in DOMAIN gq.answers[k]
    /\ Len(gq.answers[k][j]) > 0

\* the input paths, by index, whose alias came with a commit
DatedPaths ==
    LET Has(p) == Dated(((p - 1) \div 100) + 1, (p - 1) % 100)
    IN  SelectSeq(gq.paths, Has)

\* C22: when GetFileCommitDates has ended without error, the paths of its
\* results are, in input order, exactly the input paths whose alias came
\* back with a non-empty history, where the alias j of the query k (from 0)
\* stands for the input path of index 100*k+j, and the date of each result
\* is the date returned under that alias, which is the date of that path; a
\* path without history is left out and is no error.
C22_ResultsFollowAliases ==
    (gq.pc = "done" /\ ~gq.err) =>
        /\ [r \in 1..Len(gq.results) |-> gq.results[r].Path] = DatedPaths
        /\ \A r \in 1..(Len(gq.results) - 1) :
               gq.results[r].Path < gq.results[r + 1].Path
        /\ \A r \in 1..Len(gq.results) :
               LET p == gq.results[r].Path
                   k == ((p - 1) \div 100) + 1
                   j == (p - 1) % 100
               IN  /\ gq.paths[100 * (k - 1) + j + 1] = p
                   /\ gq.queries[k][j + 1] = p
                   /\ Dated(k, j)
                   /\ gq.results[r].CommittedDate = gq.answers[k][j][1]
                   /\ gq.results[r].CommittedDate = DateOf(p)

\* 150 paths: the first answer lacks its first alias, the second has no
\* history for its odd aliases; 99 and 25 paths are returned, the first of
\* them path 2 and the first of the second batch path 101
C22_Witness ==
    /\ gq.pc = "done"
    /\ ~gq.err
    /\ Len(gq.paths) = 150
    /\ Len(gq.answers) = 2
    /\ 0 \notin DOMAIN gq.answers[1]
    /\ 1 \in DOMAIN gq.answers[2]
    /\ gq.answers[2][1] = <<>>
    /\ Len(gq.results) = 124
    /\ gq.results[1] = [Path |-> 2, CommittedDate |-> DateOf(2)]
    /\ gq.results[100] = [Path |-> 101, CommittedDate |-> DateOf(101)]

\* ------------------------------------------------------------------------
\* C23
\* ------------------------------------------------------------------------
\* C23: for every sequence of entries and every pair of bounds the size
\* pass keeps, in order, the entries with (minSize = 0 or Size >= minSize)
\* and (maxSize = 0 or Size <= maxSize): an entry of exactly minSize or
\* maxSize bytes is kept, one of 999 bytes is dropped under minSize = 1000,
\* an entry of size 0 is kept when only maxSize is set, and with
\* minSize > maxSize > 0 nothing is kept.
C23_SizeBoundsInclusive ==
    (fl.pc = "done" /\ fl.stage = "size") =>
        LET minSize == fl.setting[1]
            maxSize == fl.setting[2]
            Keep(e) == /\ minSize = 0 \/ e.Size >= minSize
                       /\ maxSize = 0 \/ e.Size <= maxSize
        IN  /\ fl.out = SelectSeq(fl.in, Keep)
            /\ \A k \in 1..Len(fl.in) :
                   /\ (minSize = 1000 /\ maxSize = 0) =>
                         /\ fl.in[k].Size = 1000 => Contains(fl.out, fl.in[k])
                         /\ fl.in[k].Size = 999 => ~Contains(fl.out, fl.in[k])
                   /\ (minSize = 0 /\ maxSize = 1000) =>
                         /\ fl.in[k].Size = 1000 => Contains(fl.out, fl.in[k])
                         /\ fl.in[k].Size = 0 => Contains(fl.out, fl.in[k])
                         /\ fl.in[k].Size = 1001 => ~Contains(fl.out, fl.in[k])
            /\ (minSize > maxSize /\ maxSize > 0) => fl.out = <<>>

\* minSize = 1000 over entries of 999, 1000 and 1001 bytes: the last two
\* are kept
C23_Witness ==
    /\ fl.pc = "done"
    /\ fl.stage = "size"
    /\ fl.setting = <<1000, 0>>
    /\ Len(fl.in) = 3
    /\ fl.in[1].Size = 999 /\ fl.in[2].Size = 1000 /\ fl.in[3].Size = 1001
    /\ fl.out = <<fl.in[2], fl.in[3]>>

\* ------------------------------------------------------------------------
\* C24
\* ------------------------------------------------------------------------
\* every selector of the options is empty
NoSelector(o) ==
    /\ o.FileTypes = <<>>
    /\ o.Extensions = <<>>
    /\ o.Excludes = <<>>
    /\ o.MinSize = 0
    /\ o.MaxSize = 0

\* C24: for every sequence of entries, the type pass with no type, the
\* extension pass with no extension, the exclude pass with no exclude
\* pattern and the size pass with both bounds 0 return their input as it
\* is, without error; the type pass does so although matchesFileType is
\* false of every entry for the empty list; and searchRepo with no selector
\* at all is left with what the pattern pass alone keeps.
C24_EmptySelectorIsIdentity ==
    fl.pc = "done" =>
        /\ (fl.stage = "type" /\ fl.setting[1] = <<>>) =>
              /\ fl.out = fl.in
              /\ \A k \in 1..Len(fl.in) : ~matchesFileType(fl.in[k], <<>>)
        /\ (fl.stage = "extension" /\ fl.setting[1] = <<>>) => fl.out = fl.in
        /\ (fl.stage = "excludes" /\ fl.setting[1] = <<>>) =>
              (fl.out = fl.in /\ ~fl.err)
        /\ (fl.stage = "size" /\ fl.setting = <<0, 0>>) => fl.out = fl.in
        /\ (fl.stage = "search" /\ NoSelector(fl.setting)) =>
              LET r == filterByPattern(fl.in, fl.setting.Pattern,
                                       fl.setting.FullPath,
                                       fl.setting.IgnoreCase)
              IN  fl.out = r.entries /\ fl.err = r.err

\* the type pass with no type over a file, a directory and an executable
C24_Witness ==
    /\ fl.pc = "done"
    /\ fl.stage = "type"
    /\ fl.setting[1] = <<>>
    /\ Len(fl.in) = 3
    /\ fl.in[1].Mode = "100644"
    /\ fl.in[2].Mode = "040000"
    /\ fl.in[3].Mode = "100755"
    /\ fl.out = fl.in

\* ------------------------------------------------------------------------
\* C25
\* ------------------------------------------------------------------------
\* a requested extension with its leading dot: a dot is put in front of a
\* request that has none
Dotted(v) == IF Len(v) > 0 /\ v[1] = "." THEN v ELSE <<".">> \o v

\* a requested extension with exactly one leading dot: the dots in front of
\* it are taken off and one is put there
RECURSIVE WithoutLeadingDots(_)
WithoutLeadingDots(v) ==
    IF Len(v) > 0 /\ v[1] = "." THEN WithoutLeadingDots(Tail(v)) ELSE v

ExactlyOneDot(v) == <<".">> \o WithoutLeadingDots(v)

\* C25 as claimed: for every sequence of entries and every non-empty list
\* of requested extensions the extension pass keeps, in order, the entries
\* whose path has a final extension that equals one of the requests brought
\* to exactly one leading dot, letter case ignored when ignoreCase is set.
C25_AsClaimed ==
    (fl.pc = "done" /\ fl.stage = "extension" /\ Len(fl.setting[3]) > 0) =>
        LET typed == fl.setting[3]
            ic == fl.setting[2]
            Case(x) == IF ic THEN ToLower(x) ELSE x
            Keep(e) ==
                /\ Ext(e.Path) # <<>>
                /\ \E i \in 1..Len(typed) :
                       Case(Ext(e.Path)) = Case(ExactlyOneDot(typed[i]))
        IN  fl.out = SelectSeq(fl.in, Keep)

\* C25 amended: for every sequence of entries and every non-empty list of
\* requested extensions the extension pass keeps, in order, the entries
\* whose path has a final extension that equals one of the requests, a dot
\* put in front of a request that does not start with one, letter case
\* ignored when ignoreCase is set; requesting go and requesting .go keep
\* the same entries, a request typed with two dots keeps nothing, and an
\* entry without extension is never kept.
C25_ExtensionWithOneDot ==
    (fl.pc = "done" /\ fl.stage = "extension" /\ Len(fl.setting[3]) > 0) =>
        LET typed == fl.setting[3]
            ic == fl.setting[2]
            Case(x) == IF ic THEN ToLower(x) ELSE x
            Keep(e) ==
                /\ Ext(e.Path) # <<>>
                /\ \E i \in 1..Len(typed) :
                       Case(Ext(e.Path)) = Case(Dotted(typed[i]))
        IN  /\ fl.out = SelectSeq(fl.in, Keep)
            /\ typed = << <<"g", "o">> >> =>
                  fl.out = filterByExtension(fl.in, << <<".", "g", "o">> >>, ic)
            /\ typed = << <<".", ".", "g", "o">> >> => fl.out = <<>>
            /\ \A k \in 1..Len(fl.out) : Ext(fl.out[k].Path) # <<>>

\* go is requested and case is ignored over README.md, main.go, cmd and
\* T.GO: main.go and T.GO are kept
C25_Witness ==
    /\ fl.pc = "done"
    /\ fl.stage = "extension"
    /\ fl.setting[3] = << <<"g", "o">> >>
    /\ fl.setting[2]
    /\ Len(fl.in) = 4
    /\ fl.in[1].Path = <<"R", ".", "m", "d">>
    /\ fl.in[2].Path = <<"m", ".", "g", "o">>
    /\ fl.in[3].Path = <<"c">>
    /\ fl.in[4].Path = <<"T", ".", "G", "O">>
    /\ fl.out = <<fl.in[2], fl.in[4]>>

\* ------------------------------------------------------------------------
\* C26
\* ------------------------------------------------------------------------
\* a spec as the claim reads it: what follows the first @ is the ref, what
\* precedes it is owner or owner/repo
SpecAsClaimed(spec) ==
    LET ats == {i \in 1..Len(spec) : spec[i] = "@"}
        at == IF ats = {} THEN Len(spec) + 1
              ELSE CHOOSE i \in ats : \A j \in ats : i <= j
        parts == Split(SubSeq(spec, 1, at - 1), "/")
    IN  [owner |-> parts[1],
         repo |-> IF Len(parts) = 2 THEN parts[2] ELSE <<>>,
         ref |-> SubSeq(spec, at + 1, Len(spec)),
         err |-> Len(parts) > 2]

\* C26 as stated: Find gives up on a spec only if the spec has more than one
\* / before its @ref suffix, and a processed spec owner/repo or
\* owner/repo@ref stands for the repository repo of the owner: that
\* repository is resolved, or a warning of GetRepo names it.
C26_AsClaimed ==
    /\ (pc = "done" /\ ret.kind = "specerror") =>
           SpecAsClaimed(opts.RepoSpecs[specIdx]).err
    /\ \A i \in 1..Len(opts.RepoSpecs) :
           LET c == SpecAsClaimed(opts.RepoSpecs[i])
               name == Join(<<c.owner, c.repo>>, <<"/">>)
           IN  (i < specIdx /\ ~c.err /\ c.repo # <<>>) =>
                   \/ \E k \in 1..Len(allRepos) :
                          allRepos[k].spec = i /\ allRepos[k].FullName = name
                   \/ GetRepoWarned(name)

\* ------------------------------------------------------------------------
\* C27
\* ------------------------------------------------------------------------
\* the table of the claim
TypeOfMode(mode) ==
    IF mode = "040000" THEN "directory"
    ELSE IF mode = "120000" THEN "symlink"
    ELSE IF mode = "160000" THEN "submodule"
    ELSE IF mode = "100755" THEN "executable"
    ELSE "file"

\* C27: ParseFileType gives every mode string a type, the one of the table
\* (040000 directory, 120000 symlink, 160000 submodule, 100755 executable,
\* 100644, 100664, an unknown and the empty mode file), and for every
\* sequence of entries and every non-empty list of types the type pass
\* keeps, in order, the entries whose type is one of the list.
C27_ModeTableAndTypeFilter ==
    /\ \A k \in 1..Len(fl.in) :
           /\ ParseFileType(fl.in[k].Mode) \in FileTypes
           /\ ParseFileType(fl.in[k].Mode) = TypeOfMode(fl.in[k].Mode)
    /\ (fl.pc = "done" /\ fl.stage = "type" /\ Len(fl.setting[1]) > 0) =>
           LET Keep(e) == \E i \in 1..Len(fl.setting[1]) :
                              fl.setting[1][i] = TypeOfMode(e.Mode)
           IN  fl.out = SelectSeq(fl.in, Keep)

\* files are asked for over an entry of unknown mode and a symlink: the
\* entry of unknown mode is a file and is kept
C27_Witness ==
    /\ fl.pc = "done"
    /\ fl.stage = "type"
    /\ fl.setting[1] = <<"file">>
    /\ Len(fl.in) = 2
    /\ fl.in[1].Mode = "999999"
    /\ fl.in[2].Mode = "120000"
    /\ fl.out = <<fl.in[1]>>

\* ------------------------------------------------------------------------
\* C28
\* ------------------------------------------------------------------------
\* Find has returned from a path taken after scheduling began
ReturnedAfterScheduling ==
    /\ pc = "done"
    /\ Len(repos) > 0
    /\ ret.kind \in {"nil", "allfailed", "canceled"}

\* C28: when Find has returned after scheduling began, also with the error
\* of an Acquire that found ctx done, every task that was started has
\* reached done, so none runs, holds a slot or is inside an Output call,
\* and nothing is written to either stream once Find has returned.
C28_JoinBarrier ==
    /\ [](ReturnedAfterScheduling =>
            /\ \A t \in Started : task[t].pc = "done"
            /\ InFlight = {}
            /\ semCur = 0
            /\ wgCount = 0
            /\ mu = 0
            /\ Writing = {})
    /\ [][pc = "done" => (stdout' = stdout /\ stderr' = stderr /\ task' = task)]_vars

\* Find returned the error of the cancelled Acquire after waiting for the
\* one task it had started, which wrote a match; the other repository was
\* never admitted although Jobs is 1 slot only
C28_Witness ==
    /\ pc = "done"
    /\ ret.kind = "canceled"
    /\ opts.Jobs = 1
    /\ \E t1, t2 \in Tasks :
          /\ task[t1].pc = "done"
          /\ Len(LinesBy(stdout, t1)) > 0
          /\ task[t2].pc = "queued"
    /\ semCur = 0

\* ------------------------------------------------------------------------
\* C29
\* ------------------------------------------------------------------------
\* a started goroutine takes a step
GoroutineStep ==
    \E t \in DOMAIN task :
        /\ t \in DOMAIN task'
        /\ task[t].pc # "queued"
        /\ task'[t] # task[t]

\* the holder of the mutex is between the Lock and the Unlock of one
\* Match or Warningf call, and the step it takes next gives the mutex back
HeldInsideOneCall ==
    /\ [](\A t \in Tasks : mu = t => (task[t].pc \in OutputPcs /\ task[t].w))
    /\ [](mu # 0 => mu \in Tasks)
    /\ [][\A t \in DOMAIN task :
             (mu = t /\ t \in DOMAIN task' /\ task'[t] # task[t]) => mu' = 0]_vars

\* what Find keeps for itself: its position, the resolved repositories and
\* its result, and ctx
FindsOwn == <<pc, specIdx, allRepos, repos, next, cancelled, ret>>

\* C29 as claimed: the holder of the mutex is inside one Output call, the
\* Options are never changed, and a step of a task changes nothing but its
\* own record, the output sink and the admission gate.
C29_AsClaimed ==
    /\ HeldInsideOneCall
    /\ [][opts' = opts]_vars
    /\ [][GoroutineStep =>
             /\ Cardinality({t \in DOMAIN task : task'[t] # task[t]}) = 1
             /\ UNCHANGED <<FindsOwn, wgCount, errorCount>>]_vars

\* C29: in every reachable state the task that holds the output mutex is
\* inside a single Match or Warningf call (never fetching, filtering or
\* still queued), the Options are never changed by any step, also when the
\* passes lower-case the pattern, the excludes and the extensions under
\* ignoreCase, and a step of a task changes nothing but its own record, the
\* output sink, the admission gate, the wait group's counter and the atomic
\* counter of failed tasks.
C29_MutexOnlyInsideOutputCall ==
    /\ HeldInsideOneCall
    /\ [][opts' = opts]_vars
    /\ [][GoroutineStep =>
             /\ Cardinality({t \in DOMAIN task : task'[t] # task[t]}) = 1
             /\ UNCHANGED FindsOwn]_vars

\* with --ignore-case and a pattern, an exclude pattern and an extension in
\* upper case, which the passes lower-case, a task is inside Match holding
\* the mutex after its filter passes, another task is fetching its tree,
\* and a third has failed and was counted
C29_Witness ==
    /\ opts.IgnoreCase
    /\ opts.Pattern = PatGoUpper
    /\ opts.Excludes = <<PatRUpper>>
    /\ opts.Extensions = <<ExtGoUpper>>
    /\ errorCount = 1
    /\ \E t1, t2 \in Tasks :
          /\ mu = t1
          /\ task[t1].pc = "emit" /\ task[t1].w
          /\ task[t2].pc = "fetch"

\* ------------------------------------------------------------------------
\* C30
\* ------------------------------------------------------------------------
\* the order of a task's stages: where a task can be after a step, by where
\* it was; a task stays where it is only between the pieces and the lines
\* of its output
StagesAfter(stage) ==
    CASE stage = "queued" -> {"queued", "fetch"}
      [] stage = "fetch" -> {"fetch", "truncwarn", "filter", "failwarn"}
      [] stage = "truncwarn" -> {"truncwarn", "filter"}
      [] stage = "filter" -> {"filter", "emit", "failwarn", "release"}
      [] stage = "emit" -> {"emit", "release"}
      [] stage = "failwarn" -> {"failwarn", "release"}
      [] stage = "release" -> {"release", "wgdone"}
      [] stage = "wgdone" -> {"wgdone", "done"}
      [] stage = "done" -> {"done"}

\* the tasks that have given their slot back
Released == {t \in Tasks : task[t].pc \in {"wgdone", "done"}}

\* Find returned with every repository's task at done, failed or not, and
\* with all slots free
ReturnedWithAllDone ==
    /\ pc = "done"
    /\ \A t \in Tasks : task[t].pc = "done"
    /\ ret.kind \in {"nil", "allfailed"} => Len(repos) = Cardinality(Tasks)
    /\ semCur = 0
    /\ wgCount = 0

\* C30: unless the run is cancelled, and with every API call returning,
\* Find returns with the task of every deduplicated repository at done and
\* all slots free, for one slot as for several; on the way every task goes
\* through its stages forwards only (admitted, fetch, filter, emit, done),
\* and the slots in use go down by one exactly when one task releases, which
\* a failed task does as well.
C30_NoDeadlockAllTasksEnd ==
    /\ <>(cancelled \/ ReturnedWithAllDone)
    /\ [][\A t \in DOMAIN task :
             t \in DOMAIN task' => task'[t].pc \in StagesAfter(task[t].pc)]_vars
    /\ [][\A t \in DOMAIN task :
             (t \in DOMAIN task' /\ task[t].pc = "release"
                                 /\ task'[t].pc = "wgdone") =>
                 semCur' = semCur - 1]_vars
    /\ [][semCur' < semCur =>
             \E t \in DOMAIN task :
                 /\ t \in DOMAIN task'
                 /\ task[t].pc = "release"
                 /\ task'[t].pc = "wgdone"]_vars
    /\ [](semCur = Cardinality(Started \ Released))

\* with one slot, Find returned without cancellation after three tasks ran
\* one after the other: one failed, one wrote a match, all released
C30_Witness ==
    /\ ~cancelled
    /\ ReturnedWithAllDone
    /\ opts.Jobs = 1
    /\ Cardinality(Tasks) = 3
    /\ \E t1, t2 \in Tasks :
          /\ Failed(t1)
          /\ ~Failed(t2)
          /\ Len(LinesBy(stdout, t2)) > 0
    /\ ret.kind = "nil"

====
